---------------------------- MODULE Spec2Model ----------------------------
(***************************************************************************)
(* Model of three parts of the mail store:                                 *)
(*   - the maildir filename flag codec (lib-index/maildir/maildir-index.c) *)
(*   - the CR-injecting streamer       (lib-mail/message-send.c)           *)
(*   - the mailbox search session      (lib-storage/index/index-search.c)  *)
(*                                                                         *)
(* Characters are one-character strings; a C string is the sequence of its *)
(* characters and reading past its end yields NUL.  enum mail_flags is the *)
(* set of the bit positions that are set in the C bit mask.                *)
(***************************************************************************)
EXTENDS Integers, Sequences, FiniteSets, TLC

VARIABLES
    sys,         \* which part of the program this behaviour exercises
    \* ---- flag codec
    c_fname,     \* fname argument of maildir_filename_set_flags
    c_flags,     \* flags argument of maildir_filename_set_flags
    c_new,       \* the name maildir_filename_set_flags returned, or NoName
    c_dec,       \* the flags maildir_filename_get_flags read back, or NoFlags
    c_again,     \* the name a second maildir_filename_set_flags gave, or NoName
    \* ---- streamer
    s_input,     \* physical bytes of the message (the istream)
    s_skip,      \* virtual_skip argument
    s_max,       \* max_virtual_size argument
    s_left,      \* max_virtual_size as the function counts it down
    s_pos,       \* input->v_offset
    s_cr,        \* cr_skipped
    s_out,       \* bytes written to the ostream
    s_ret,       \* ret
    s_oerr,      \* the ostream refused a write
    s_pc,        \* position in message_send
    \* ---- search session
    q_msgs,      \* the mailbox view: rec->flags of each sequence number
    q_hdr,       \* struct mail_index_header of the view
    q_args,      \* ctx->args, the predicate tree with its results
    q_seq1,      \* ctx->seq1
    q_seq2,      \* ctx->seq2
    q_failed,    \* ctx->failed
    q_error,     \* ctx->error, "" for NULL
    q_storage_error, \* the error the storage has recorded, "" for none
    q_mail_seq,  \* ctx->mail->seq
    q_rec,       \* ctx->imail.data.rec: 0 for NULL, else the record's sequence
    q_ret,       \* what the last search_next returned: 0 for NULL, else seq
    q_deinit,    \* what search_deinit returned
    q_pc,        \* position of the session
    \* ---- sent-date matching
    d_type,      \* SENTBEFORE, SENTON or SENTSINCE
    d_value,     \* the search key: whether imap_parse_date takes it, its time
    d_mails,     \* two messages: their Date as UTC seconds and offset
    d_cached,    \* what search_arg_match_cached said of each, or <<>>
    d_sent,      \* what search_sent said of each, or <<>>
    n_msgs,      \* evaluator: the mailbox
    n_hdr,       \* its index header
    n_x,         \* the predicate node X
    n_seq,       \* the sequence number of the message evaluated
    n_ans,       \* what the collaborators answer for that message
    n_pos,       \* the outcome of the search for X on it, or <<>>
    n_neg,       \* the outcome of the search for NOT X on it, or <<>>
    \* ---- maildir_index_update_flags
    u_loc,       \* the record's DATA_FIELD_LOCATION
    u_file,      \* the name of the message's file under cur/
    u_recflags,  \* the record's flags in the index
    u_nodiskspace, \* index->nodiskspace
    u_ret,       \* what the last call returned: "none", "TRUE" or "FALSE"
    u_at         \* where the last call returned, and the errno of rename

codec_vars == <<c_fname, c_flags, c_new, c_dec, c_again>>
send_vars  ==
    <<s_input, s_skip, s_max, s_left, s_pos, s_cr, s_out, s_ret, s_oerr, s_pc>>
search_vars ==
    <<q_msgs, q_hdr, q_args, q_seq1, q_seq2, q_failed, q_error,
      q_storage_error, q_mail_seq, q_rec, q_ret, q_deinit, q_pc>>
date_vars == <<d_type, d_value, d_mails, d_cached, d_sent>>
neg_vars == <<n_msgs, n_hdr, n_x, n_seq, n_ans, n_pos, n_neg>>
upd_vars == <<u_loc, u_file, u_recflags, u_nodiskspace, u_ret, u_at>>
vars ==
    <<sys, codec_vars, send_vars, search_vars, date_vars, neg_vars, upd_vars>>

(***************************************************************************)
(* Characters                                                              *)
(***************************************************************************)
NUL == ""

\* The printable ASCII characters in code order, from code 32 (space) on
\* (the grave accent, code 96, is written "(96)").
Printable ==
    << " ", "!", "\"", "#", "$", "%", "&", "'", "(", ")", "*", "+", ",", "-",
       ".", "/", "0", "1", "2", "3", "4", "5", "6", "7", "8", "9", ":", ";",
       "<", "=", ">", "?", "@", "A", "B", "C", "D", "E", "F", "G", "H", "I",
       "J", "K", "L", "M", "N", "O", "P", "Q", "R", "S", "T", "U", "V", "W",
       "X", "Y", "Z", "[", "\\", "]", "^", "_", "(96)", "a", "b", "c", "d", "e",
       "f", "g", "h", "i", "j", "k", "l", "m", "n", "o", "p", "q", "r", "s",
       "t", "u", "v", "w", "x", "y", "z", "{", "|", "}", "~" >>

CharCode ==
    [c \in {Printable[i] : i \in 1..Len(Printable)} \cup {NUL} |->
        IF c = NUL THEN 0
        ELSE 31 + (CHOOSE i \in 1..Len(Printable) : Printable[i] = c)]

\* (unsigned char) c
Code(c) == CharCode[c]

\* the character with code n
Chr(n) == Printable[n - 31]

\* s[i] of a NUL-terminated string
CharAt(s, i) == IF i \in 1..Len(s) THEN s[i] ELSE NUL

\* strchr(s, c): the first position of c, 0 for NULL
StrChr(s, c) ==
    IF \E i \in 1..Len(s) : s[i] = c
    THEN CHOOSE i \in 1..Len(s) : s[i] = c /\ \A j \in 1..(i-1) : s[j] # c
    ELSE 0

\* strrchr(s, c): the last position of c, 0 for NULL
StrRChr(s, c) ==
    IF \E i \in 1..Len(s) : s[i] = c
    THEN CHOOSE i \in 1..Len(s) : s[i] = c /\ \A j \in (i+1)..Len(s) : s[j] # c
    ELSE 0

\* the characters of s from position i to its end
Tail_(s, i) == SubSeq(s, i, Len(s))

(***************************************************************************)
(* enum mail_flags: bit positions (mail-index.h is not part of the         *)
(* excerpt; only that the bits are distinct matters here)                  *)
(***************************************************************************)
MAIL_ANSWERED == 0
MAIL_FLAGGED == 1
MAIL_DELETED == 2
MAIL_SEEN == 3
MAIL_DRAFT == 4
MAIL_RECENT == 5
MAIL_CUSTOM_FLAG_1_BIT == 6
MAIL_CUSTOM_FLAGS_COUNT == 26

MAIL_CUSTOM_FLAGS_MASK ==
    {MAIL_CUSTOM_FLAG_1_BIT + i : i \in 0..(MAIL_CUSTOM_FLAGS_COUNT - 1)}

(***************************************************************************)
(* maildir_filename_get_flags                                              *)
(***************************************************************************)
\* one turn of the switch in the decoding loop: the bits the character sets
FlagOfChar(c) ==
    CASE c = "R" -> {MAIL_ANSWERED}
      [] c = "S" -> {MAIL_SEEN}
      [] c = "T" -> {MAIL_DELETED}
      [] c = "D" -> {MAIL_DRAFT}
      [] c = "F" -> {MAIL_FLAGGED}
      [] OTHER ->
            IF Code(c) >= Code("a") /\ Code(c) <= Code("z")
            THEN {MAIL_CUSTOM_FLAG_1_BIT + Code(c) - Code("a")}
            ELSE {}

RECURSIVE get_flags_loop(_, _, _)
get_flags_loop(fname, p, flags) ==
    IF CharAt(fname, p) = NUL \/ CharAt(fname, p) = ","
    THEN flags
    ELSE get_flags_loop(fname, p + 1, flags \cup FlagOfChar(CharAt(fname, p)))

maildir_filename_get_flags(fname, default_flags) ==
    LET info == StrChr(fname, ":")
    IN  IF info = 0 \/ CharAt(fname, info + 1) # "2"
                    \/ CharAt(fname, info + 2) # ","
        THEN default_flags
        ELSE get_flags_loop(fname, info + 3, {})

(***************************************************************************)
(* maildir_filename_set_flags                                              *)
(***************************************************************************)
\* the test with the comparison against 'S' left out
IsKnownFlagChar_NoS(c) ==
    \/ c \in {"D", "F", "R", "T"}
    \/ (Code(c) >= Code("a") /\ Code(c) <= Code("z"))

\* the test of the "skip all known flags" loop
IsKnownFlagChar(c) ==
    \/ c \in {"D", "F", "R", "S", "T"}
    \/ (Code(c) >= Code("a") /\ Code(c) <= Code("z"))

\* the skipping loop without its (*oldflags >= 'a' && *oldflags <= 'z')
RECURSIVE SkipKnownFlags_SystemOnly(_, _)
SkipKnownFlags_SystemOnly(oldflags, p) ==
    IF CharAt(oldflags, p) \in {"D", "F", "R", "S", "T"}
    THEN SkipKnownFlags_SystemOnly(oldflags, p + 1)
    ELSE p

RECURSIVE SkipKnownFlags(_, _)
SkipKnownFlags(oldflags, p) ==
    IF IsKnownFlagChar(CharAt(oldflags, p))
    THEN SkipKnownFlags(oldflags, p + 1)
    ELSE p

\* the five system-flag tests of the loop body, in the order of the code
SystemFlagChars ==
    << <<MAIL_DRAFT, "D">>, <<MAIL_FLAGGED, "F">>, <<MAIL_ANSWERED, "R">>,
       <<MAIL_SEEN, "S">>, <<MAIL_DELETED, "T">> >>

RECURSIVE AppendSystemFlags(_, _, _, _)
AppendSystemFlags(k, flags, nextflag, str) ==
    IF k > Len(SystemFlagChars) THEN str
    ELSE LET f == SystemFlagChars[k][1]
             ch == SystemFlagChars[k][2]
         IN  AppendSystemFlags(k + 1, flags, nextflag,
                IF f \in flags /\ nextflag > Code(ch)
                THEN Append(str, ch) ELSE str)

\* the loop body without its flags &= ~MAIL_x
SystemFlagsAppended_None(flags, nextflag) == {}

SystemFlagsAppended(flags, nextflag) ==
    {SystemFlagChars[k][1] : k \in
        {j \in 1..Len(SystemFlagChars) :
            SystemFlagChars[j][1] \in flags
            /\ nextflag > Code(SystemFlagChars[j][2])}}

\* for (i = 0; i < MAIL_CUSTOM_FLAGS_COUNT; i++) append 'a' + i when set
RECURSIVE AppendCustomFlags(_, _, _)
AppendCustomFlags(i, flags, str) ==
    IF i >= MAIL_CUSTOM_FLAGS_COUNT THEN str
    ELSE AppendCustomFlags(i + 1, flags,
            IF (i + MAIL_CUSTOM_FLAG_1_BIT) \in flags
            THEN Append(str, Chr(Code("a") + i)) ELSE str)

\* the for (;;) loop ending at the first character that is not a known
\* flag, whatever it is
set_flags_loop_StopAtUnknown(oldflags, p, flags, str) ==
    LET q == SkipKnownFlags(oldflags, p)
        str1 == AppendSystemFlags(1, flags, 256, str)
        flags1 == flags \ SystemFlagsAppended(flags, 256)
    IN  [str |-> IF (flags1 \cap MAIL_CUSTOM_FLAGS_MASK) # {}
                 THEN AppendCustomFlags(0, flags1, str1) ELSE str1,
         p |-> q]

\* the for (;;) loop; yields the string built and where oldflags stopped
RECURSIVE set_flags_loop(_, _, _, _)
set_flags_loop(oldflags, p, flags, str) ==
    LET q == SkipKnownFlags(oldflags, p)
        c == CharAt(oldflags, q)
        nextflag == IF c = NUL \/ c = "," THEN 256 ELSE Code(c)
        str1 == AppendSystemFlags(1, flags, nextflag, str)
        flags1 == flags \ SystemFlagsAppended(flags, nextflag)
        custom == (flags1 \cap MAIL_CUSTOM_FLAGS_MASK) # {}
                    /\ nextflag > Code("a")
        str2 == IF custom THEN AppendCustomFlags(0, flags1, str1) ELSE str1
        flags2 == IF custom THEN flags1 \ MAIL_CUSTOM_FLAGS_MASK ELSE flags1
    IN  IF c = NUL \/ c = ","
        THEN [str |-> str2, p |-> q]
        ELSE set_flags_loop(oldflags, q + 1, flags2, Append(str2, c))

\* the function without the copy of the ','-section after the loop
maildir_filename_set_flags_NoTail(fname, flags) ==
    LET colon == StrRChr(fname, ":")
        info == IF colon # 0 /\ StrRChr(fname, "/") > colon THEN 0 ELSE colon
        base == IF info # 0 THEN SubSeq(fname, 1, info - 1) ELSE fname
        oldflags ==
            IF info # 0 /\ CharAt(fname, info + 1) = "2"
                        /\ CharAt(fname, info + 2) = ","
            THEN Tail_(fname, info + 3)
            ELSE <<>>
    IN  set_flags_loop(oldflags, 1, flags, base \o <<":", "2", ",">>).str

\* the function without its fname = t_strdup_until(fname, info)
maildir_filename_set_flags_KeepInfo(fname, flags) ==
    LET colon == StrRChr(fname, ":")
        info == IF colon # 0 /\ StrRChr(fname, "/") > colon THEN 0 ELSE colon
        oldflags ==
            IF info # 0 /\ CharAt(fname, info + 1) = "2"
                        /\ CharAt(fname, info + 2) = ","
            THEN Tail_(fname, info + 3)
            ELSE <<>>
        r == set_flags_loop(oldflags, 1, flags, fname \o <<":", "2", ",">>)
    IN  IF CharAt(oldflags, r.p) = ","
        THEN r.str \o Tail_(oldflags, r.p)
        ELSE r.str

maildir_filename_set_flags(fname, flags) ==
    LET colon == StrRChr(fname, ":")
        \* strrchr(fname, '/') > info
        info == IF colon # 0 /\ StrRChr(fname, "/") > colon THEN 0 ELSE colon
        base == IF info # 0 THEN SubSeq(fname, 1, info - 1) ELSE fname
        oldflags ==
            IF info # 0 /\ CharAt(fname, info + 1) = "2"
                        /\ CharAt(fname, info + 2) = ","
            THEN Tail_(fname, info + 3)
            ELSE <<>>
        r == set_flags_loop(oldflags, 1, flags, base \o <<":", "2", ",">>)
    IN  IF CharAt(oldflags, r.p) = ","
        THEN r.str \o Tail_(oldflags, r.p)
        ELSE r.str

(***************************************************************************)
(* The codec's inputs                                                      *)
(***************************************************************************)
MaxOldFlags == 2
MaxFlags == 2

SeqsUpTo(S, n) == UNION {[1..k -> S] : k \in 0..n}

NoName == <<>>
NoFlags == {-1}

\* parts of file names: bases (plain, with a secondary section, below a
\* directory, with a colon of their own), old flag strings over known and
\* unknown characters, and what may follow the flags
Bases == { <<"1">>, <<"1", ",", "U">>, <<"d", "/", "1">>, <<"1", ":", "x">> }
OldFlagChars == {"A", "S", "X", "a", "~"}
OldFlagStrs == SeqsUpTo(OldFlagChars, MaxOldFlags)
Trailings == { <<>>, <<",", "W">>, <<",", "/">>, <<",", ":">> }

\* names with a ":2,<flagchars>" suffix
SuffixedNames ==
    {b \o <<":", "2", ",">> \o o \o t :
        b \in Bases, o \in OldFlagStrs, t \in Trailings}

\* names with no suffix, with a suffix that is not ":2,", and below a
\* directory whose name holds the only colon
PlainNames ==
    Bases \cup {b \o <<":", "1", ",", "S">> : b \in Bases}
          \cup { <<"d", ":", "2", ",", "S", "/", "1">> }

\* "1234.host,U=7:2,RSabc"
ExampleName ==
    << "1", "2", "3", "4", ".", "h", "o", "s", "t", ",", "U", "=", "7",
       ":", "2", ",", "R", "S", "a", "b", "c" >>

Names == SuffixedNames \cup PlainNames \cup {ExampleName}

CustomFlag(c) == MAIL_CUSTOM_FLAG_1_BIT + Code(c) - Code("a")

FlagUniverse ==
    {MAIL_ANSWERED, MAIL_SEEN, MAIL_DELETED, MAIL_DRAFT, MAIL_FLAGGED,
     CustomFlag("a"), CustomFlag("z")}

FlagSets ==
    {F \in SUBSET FlagUniverse : Cardinality(F) <= MaxFlags}
        \cup {FlagUniverse}

CodecIdle ==
    /\ c_fname = NoName /\ c_flags = {} /\ c_new = NoName /\ c_dec = NoFlags
    /\ c_again = NoName

InitCodecVars ==
    /\ c_fname \in Names
    /\ c_flags \in FlagSets
    /\ c_new = NoName
    /\ c_dec = NoFlags
    /\ c_again = NoName

\* new_fname = maildir_filename_set_flags(old_fname, flags)
SetFlags ==
    /\ sys = "codec"
    /\ c_new = NoName
    /\ c_new' = maildir_filename_set_flags(c_fname, c_flags)
    /\ UNCHANGED <<sys, date_vars, neg_vars, upd_vars,
                   c_fname, c_flags, c_dec, c_again, send_vars,
                   search_vars>>

\* maildir_filename_get_flags(new_fname, 0)
GetFlags ==
    /\ sys = "codec"
    /\ c_new # NoName
    /\ c_dec = NoFlags
    /\ c_dec' = maildir_filename_get_flags(c_new, {})
    /\ UNCHANGED <<sys, date_vars, neg_vars, upd_vars,
                   c_fname, c_flags, c_new, c_again, send_vars,
                   search_vars>>

\* maildir_filename_set_flags(new_fname, flags): the same flags once more
SetFlagsAgain ==
    /\ sys = "codec"
    /\ c_new # NoName
    /\ c_again = NoName
    /\ c_again' = maildir_filename_set_flags(c_new, c_flags)
    /\ UNCHANGED <<sys, date_vars, neg_vars, upd_vars,
                   c_fname, c_flags, c_new, c_dec, send_vars,
                   search_vars>>

(***************************************************************************)
(* message_send                                                            *)
(***************************************************************************)
MaxInput == 4
MaxSkip == 5
MaxBudget == 5

CR == "\r"
LF == "\n"

Min(a, b) == IF a < b THEN a ELSE b

\* a '\n' at position i (1-based) that no '\r' precedes
BareLF(input, i) == input[i] = LF /\ (i = 1 \/ input[i - 1] # CR)

\* struct message_size of the message: physical_size and virtual_size
PhysicalSize(input) == Len(input)
VirtualSize(input) ==
    Len(input) + Cardinality({i \in 1..Len(input) : BareLF(input, i)})

\* message_skip_virtual(input, virtual_skip, NULL, &cr_skipped) on a stream at
\* offset pos: skips virtual_skip bytes of the CRLF form; cr_skipped tells
\* that the last byte skipped was a CR, a real one or the one a bare LF
\* stands for, in which case the LF itself is not skipped
RECURSIVE message_skip_virtual(_, _, _, _)
message_skip_virtual(input, pos, virtual_skip, cr_skipped) ==
    IF virtual_skip = 0 \/ pos >= Len(input)
    THEN [pos |-> pos, cr_skipped |-> cr_skipped]
    ELSE LET c == input[pos + 1]
         IN  IF c = LF /\ BareLF(input, pos + 1)
             THEN IF virtual_skip = 1
                  THEN [pos |-> pos, cr_skipped |-> TRUE]
                  ELSE message_skip_virtual(input, pos + 1,
                                            virtual_skip - 2, FALSE)
             ELSE message_skip_virtual(input, pos + 1, virtual_skip - 1,
                                       c = CR)

\* the inner loop with max_virtual_size-- moved below the LF test, so that
\* the CR to add is not counted
RECURSIVE ScanChunk_CRNotCounted(_, _, _, _)
ScanChunk_CRNotCounted(msg, i, max_virtual_size, cr_skipped) ==
    IF ~(i < Len(msg) /\ max_virtual_size > 0)
    THEN [i |-> i, max |-> max_virtual_size, add_cr |-> FALSE]
    ELSE IF msg[i + 1] = LF
            /\ ((i = 0 /\ ~cr_skipped) \/ (i > 0 /\ msg[i] # CR))
         THEN [i |-> i, max |-> max_virtual_size, add_cr |-> TRUE]
         ELSE ScanChunk_CRNotCounted(msg, i + 1, max_virtual_size - 1,
                                     cr_skipped)

\* the inner loop with the LF test only looking at the chunk's first byte
RECURSIVE ScanChunk_FirstByteOnly(_, _, _, _)
ScanChunk_FirstByteOnly(msg, i, max_virtual_size, cr_skipped) ==
    IF ~(i < Len(msg) /\ max_virtual_size > 0)
    THEN [i |-> i, max |-> max_virtual_size, add_cr |-> FALSE]
    ELSE IF msg[i + 1] = LF /\ i = 0 /\ ~cr_skipped
         THEN [i |-> i, max |-> max_virtual_size - 1, add_cr |-> TRUE]
         ELSE ScanChunk_FirstByteOnly(msg, i + 1, max_virtual_size - 1,
                                      cr_skipped)

\* the inner for loop over one chunk msg: where it stops (i, 0-based count of
\* bytes passed), the budget left and add_cr
RECURSIVE ScanChunk(_, _, _, _)
ScanChunk(msg, i, max_virtual_size, cr_skipped) ==
    IF ~(i < Len(msg) /\ max_virtual_size > 0)
    THEN [i |-> i, max |-> max_virtual_size, add_cr |-> FALSE]
    ELSE IF msg[i + 1] = LF
            /\ ((i = 0 /\ ~cr_skipped) \/ (i > 0 /\ msg[i] # CR))
         THEN [i |-> i, max |-> max_virtual_size - 1, add_cr |-> TRUE]
         ELSE ScanChunk(msg, i + 1, max_virtual_size - 1, cr_skipped)

\* "ab\ncd\r\nef"
ExampleInput == <<"a", "b", LF, "c", "d", CR, LF, "e", "f">>

SendIdle ==
    /\ s_input = <<>> /\ s_skip = 0 /\ s_max = 0 /\ s_left = 0 /\ s_pos = 0
    /\ s_cr = FALSE /\ s_out = <<>> /\ s_ret = 0 /\ s_oerr = FALSE
    /\ s_pc = "idle"

InitSendVars ==
    /\ \/ /\ s_input \in SeqsUpTo({"a", CR, LF}, MaxInput)
          /\ s_skip \in 0..MaxSkip
          /\ s_max \in 0..MaxBudget
       \/ /\ s_input = ExampleInput
          /\ s_skip = 0
          /\ s_max = 10
    /\ s_left = s_max
    /\ s_pos = 0
    /\ s_cr = FALSE
    /\ s_out = <<>>
    /\ s_ret = 0
    /\ s_oerr = FALSE
    /\ s_pc = "start"

\* the value of the fast path's ret: o_stream_send_istream(output, input) > 0
FastPathRet(sent) == IF sent > 0 THEN 1 ELSE 0

\* message_send up to the while loop: the early returns, the clamp of
\* max_virtual_size, the whole fast path, and message_skip_virtual.
\* o_stream_send_istream returns the bytes it sent, or -1 having sent none.
message_send_begin ==
    /\ sys = "send"
    /\ s_pc = "start"
    /\ LET physical_size == PhysicalSize(s_input)
           virtual_size == VirtualSize(s_input)
           max == Min(s_max, virtual_size - s_skip)
       IN  IF physical_size = 0 \/ s_skip >= virtual_size
           THEN /\ s_ret' = 0
                /\ s_pc' = "done"
                /\ UNCHANGED <<s_left, s_pos, s_cr, s_out, s_oerr>>
           ELSE IF physical_size = virtual_size
           THEN LET old_limit == Len(s_input)
                    limit == s_skip + max
                    stop == Min(limit, old_limit)
                IN  \E ok \in BOOLEAN :
                    /\ s_left' = max
                    /\ s_pos' = IF ok THEN stop ELSE s_skip
                    /\ s_out' = IF ok THEN SubSeq(s_input, s_skip + 1, stop)
                                ELSE s_out
                    /\ s_ret' = FastPathRet(IF ok THEN stop - s_skip ELSE -1)
                    /\ s_oerr' = ~ok
                    /\ s_pc' = "done"
                    /\ UNCHANGED s_cr
           ELSE LET r == message_skip_virtual(s_input, 0, s_skip, FALSE)
                IN  /\ s_left' = max
                    /\ s_pos' = r.pos
                    /\ s_cr' = r.cr_skipped
                    /\ s_ret' = 0
                    /\ s_pc' = "loop"
                    /\ UNCHANGED <<s_out, s_oerr>>
    /\ UNCHANGED <<sys, date_vars, neg_vars, upd_vars,
                   s_input, s_skip, s_max, codec_vars, search_vars>>

\* one turn of the while loop; i_stream_read_data hands out size bytes, and
\* failed tells which o_stream_send, if any, returns -1
message_send_loop ==
    /\ sys = "send"
    /\ s_pc = "loop"
    /\ s_left > 0
    /\ s_pos < Len(s_input)
    /\ \E size \in 1..(Len(s_input) - s_pos), failed \in {"none", "msg", "cr"} :
        LET msg == SubSeq(s_input, s_pos + 1, s_pos + size)
            r == ScanChunk(msg, 0, s_left, s_cr)
        IN  /\ failed = "cr" => r.add_cr
            /\ s_left' = r.max
            /\ IF failed = "msg"
               THEN /\ s_ret' = -1
                    /\ s_pc' = "done"
                    /\ s_oerr' = TRUE
                    /\ UNCHANGED <<s_out, s_cr, s_pos>>
               ELSE IF failed = "cr"
               THEN /\ s_ret' = -1
                    /\ s_pc' = "done"
                    /\ s_oerr' = TRUE
                    /\ s_out' = s_out \o SubSeq(msg, 1, r.i)
                    /\ UNCHANGED <<s_cr, s_pos>>
               ELSE /\ s_ret' = s_ret + r.i + (IF r.add_cr THEN 1 ELSE 0)
                    /\ s_out' = s_out \o SubSeq(msg, 1, r.i)
                                      \o (IF r.add_cr THEN <<CR>> ELSE <<>>)
                    /\ s_cr' = IF r.add_cr THEN TRUE
                               ELSE r.i > 0 /\ msg[r.i] = CR
                    /\ s_pos' = s_pos + r.i
                    /\ UNCHANGED <<s_pc, s_oerr>>
    /\ UNCHANGED <<sys, date_vars, neg_vars, upd_vars,
                   s_input, s_skip, s_max, codec_vars, search_vars>>

\* the while condition fails: return ret
message_send_return ==
    /\ sys = "send"
    /\ s_pc = "loop"
    /\ ~(s_left > 0 /\ s_pos < Len(s_input))
    /\ s_pc' = "done"
    /\ UNCHANGED <<sys, date_vars, neg_vars, upd_vars,
                   s_input, s_skip, s_max, s_left, s_pos, s_cr, s_out,
                   s_ret, s_oerr, codec_vars, search_vars>>

(***************************************************************************)
(* The search session: predicate trees                                     *)
(*                                                                         *)
(* A struct mail_search_arg list is a sequence of nodes.  result is -1     *)
(* (unset), 0 or 1.  A sequence set is a sequence of ranges.               *)
(***************************************************************************)
MaxMsgs == 2

\* (uint32_t)-1, the "*" of a sequence set: the largest sequence number
\* there is (written as 2^31 - 1; only its being above every count matters)
STAR == 2147483647

Arg(type, not, seqset, subargs) ==
    [type |-> type, not |-> not, seqset |-> seqset, subargs |-> subargs,
     result |-> -1, match_always |-> FALSE]

Leaf(type, not) == Arg(type, not, <<>>, <<>>)
Range(a, b) == [seq1 |-> a, seq2 |-> b]
SeqsetArg(set, not) == Arg("SEQSET", not, set, <<>>)
SubArg(type, subargs, not) == Arg(type, not, <<>>, subargs)

\* #define ARG_SET_RESULT(arg, res): the result, flipped for a NOT node
ARG_SET_RESULT(arg, res) ==
    [arg EXCEPT !.result =
        IF ~arg.not THEN res ELSE IF res = -1 THEN -1 ELSE 1 - res]

\* mail_search_args_reset(args, full_reset)
RECURSIVE mail_search_args_reset(_, _)
mail_search_args_reset(args, full_reset) ==
    [k \in 1..Len(args) |->
        LET arg == args[k]
            sub == IF arg.type \in {"SUB", "OR"}
                   THEN mail_search_args_reset(arg.subargs, full_reset)
                   ELSE arg.subargs
        IN  [arg EXCEPT
                !.subargs = sub,
                !.result = IF arg.match_always /\ ~full_reset THEN 1 ELSE -1,
                !.match_always = arg.match_always /\ ~full_reset]]

(***************************************************************************)
(* The range planner                                                       *)
(***************************************************************************)
\* search_msgset_fix without the two comparisons against messages_count
RECURSIVE search_msgset_fix_NoUpperCheck(_, _, _, _, _)
search_msgset_fix_NoUpperCheck(hdr, set, k, seq1_r, seq2_r) ==
    IF k > Len(set)
    THEN [ret |-> 0, set |-> set, seq1 |-> seq1_r, seq2 |-> seq2_r]
    ELSE LET s1 == IF set[k].seq1 = STAR THEN hdr.messages_count
                   ELSE set[k].seq1
             s2 == IF set[k].seq2 = STAR THEN hdr.messages_count
                   ELSE set[k].seq2
             fixed == [set EXCEPT ![k] = Range(s1, s2)]
         IN  IF s1 = 0 \/ s2 = 0
             THEN [ret |-> -1, set |-> fixed, seq1 |-> seq1_r,
                   seq2 |-> seq2_r]
             ELSE search_msgset_fix_NoUpperCheck(hdr, fixed, k + 1,
                    IF seq1_r > s1 \/ seq1_r = 0 THEN s1 ELSE seq1_r,
                    IF seq2_r < s2 THEN s2 ELSE seq2_r)

\* search_msgset_fix: the loop from range k on.  ret is 0 or -1; the set is
\* changed in place, also when a later range is found invalid.
RECURSIVE search_msgset_fix(_, _, _, _, _)
search_msgset_fix(hdr, set, k, seq1_r, seq2_r) ==
    IF k > Len(set)
    THEN [ret |-> 0, set |-> set, seq1 |-> seq1_r, seq2 |-> seq2_r]
    ELSE LET s1 == IF set[k].seq1 = STAR THEN hdr.messages_count
                   ELSE set[k].seq1
             s2 == IF set[k].seq2 = STAR THEN hdr.messages_count
                   ELSE set[k].seq2
             fixed == [set EXCEPT ![k] = Range(s1, s2)]
         IN  IF s1 = 0 \/ s2 = 0 \/ s1 > hdr.messages_count
                       \/ s2 > hdr.messages_count
             THEN [ret |-> -1, set |-> fixed, seq1 |-> seq1_r,
                   seq2 |-> seq2_r]
             ELSE search_msgset_fix(hdr, fixed, k + 1,
                    IF seq1_r > s1 \/ seq1_r = 0 THEN s1 ELSE seq1_r,
                    IF seq2_r < s2 THEN s2 ELSE seq2_r)

\* search_parse_msgset_args: ParseArgsLoop is its for loop from node k on;
\* the function itself first stores 0 in *seq1_r and *seq2_r, on every call,
\* the recursive ones included
RECURSIVE ParseArgsLoop(_, _, _, _, _)
search_parse_msgset_args(hdr, args) == ParseArgsLoop(hdr, args, 1, 0, 0)

ParseArgsLoop(hdr, args, k, seq1_r, seq2_r) ==
    IF k > Len(args)
    THEN [ret |-> 0, args |-> args, seq1 |-> seq1_r, seq2 |-> seq2_r]
    ELSE LET arg == args[k]
         IN  IF arg.type \in {"SUB", "OR"}
             THEN \* for OR, *seq1_r = 1 and *seq2_r = messages_count are
                  \* stored before the call, which stores 0 over them
                  LET r == search_parse_msgset_args(hdr, arg.subargs)
                      args1 == [args EXCEPT ![k].subargs = r.args]
                  IN  IF r.ret < 0
                      THEN [ret |-> -1, args |-> args1, seq1 |-> r.seq1,
                            seq2 |-> r.seq2]
                      ELSE ParseArgsLoop(hdr, args1, k + 1, r.seq1, r.seq2)
             ELSE IF arg.type = "SEQSET"
             THEN LET r == search_msgset_fix(hdr, arg.seqset, 1, seq1_r,
                                             seq2_r)
                      args1 == [args EXCEPT ![k].seqset = r.set]
                  IN  IF r.ret < 0
                      THEN [ret |-> -1, args |-> args1, seq1 |-> r.seq1,
                            seq2 |-> r.seq2]
                      ELSE ParseArgsLoop(hdr, args1, k + 1, r.seq1, r.seq2)
             ELSE IF arg.type = "ALL"
             THEN ParseArgsLoop(hdr, args, k + 1, 1, hdr.messages_count)
             ELSE ParseArgsLoop(hdr, args, k + 1, seq1_r, seq2_r)

\* the uid of the record at sequence seq: uids grow with the sequence
UidOf(seq) == 2 * seq

\* mail_index_lookup_uid_range(view, uid_lowwater, (uint32_t)-1, &seq1, &seq2):
\* the first sequence whose uid is at least uid_lowwater, 0 when there is none
LookupUidRangeFirst(hdr, uid_lowwater) ==
    LET S == {seq \in 1..hdr.messages_count : UidOf(seq) >= uid_lowwater}
    IN  IF S = {} THEN 0 ELSE CHOOSE seq \in S : \A t \in S : seq <= t

\* search_limit_lowwater; range_ok tells whether the uid lookup succeeded
search_limit_lowwater(hdr, uid_lowwater, first_seq, range_ok) ==
    IF uid_lowwater = 0 THEN [ret |-> 0, first_seq |-> first_seq]
    ELSE IF ~range_ok THEN [ret |-> -1, first_seq |-> first_seq]
    ELSE LET seq1 == LookupUidRangeFirst(hdr, uid_lowwater)
         IN  [ret |-> 0,
              first_seq |-> IF first_seq < seq1 THEN seq1 ELSE first_seq]

\* search_limit_by_flags: the loop from node k on.  ret is what the function
\* returns: -1, 0, or *seq1 <= *seq2 as 0 or 1.
RECURSIVE search_limit_by_flags(_, _, _, _, _, _)
search_limit_by_flags(hdr, args, k, seq1, seq2, range_ok) ==
    IF k > Len(args)
    THEN [ret |-> IF seq1 <= seq2 THEN 1 ELSE 0, args |-> args,
          seq1 |-> seq1]
    ELSE LET arg == args[k]
             out(r) == [ret |-> r, args |-> args, seq1 |-> seq1]
         IN
         IF arg.type = "SEEN"
         THEN IF ~arg.not /\ hdr.seen_messages_count = 0 THEN out(0)
              ELSE IF hdr.seen_messages_count = hdr.messages_count
              THEN IF arg.not THEN out(0)
                   ELSE search_limit_by_flags(hdr,
                            [args EXCEPT ![k].match_always = TRUE],
                            k + 1, seq1, seq2, range_ok)
              ELSE IF arg.not
              THEN LET r == search_limit_lowwater(hdr,
                                hdr.first_unseen_uid_lowwater, seq1, range_ok)
                   IN  IF r.ret < 0 THEN out(-1)
                       ELSE search_limit_by_flags(hdr, args, k + 1,
                                r.first_seq, seq2, range_ok)
              ELSE search_limit_by_flags(hdr, args, k + 1, seq1, seq2,
                                         range_ok)
         ELSE IF arg.type = "DELETED"
         THEN IF ~arg.not /\ hdr.deleted_messages_count = 0 THEN out(0)
              ELSE IF hdr.deleted_messages_count = hdr.messages_count
              THEN IF arg.not THEN out(0)
                   ELSE search_limit_by_flags(hdr,
                            [args EXCEPT ![k].match_always = TRUE],
                            k + 1, seq1, seq2, range_ok)
              ELSE IF ~arg.not
              THEN LET r == search_limit_lowwater(hdr,
                                hdr.first_deleted_uid_lowwater, seq1, range_ok)
                   IN  IF r.ret < 0 THEN out(-1)
                       ELSE search_limit_by_flags(hdr, args, k + 1,
                                r.first_seq, seq2, range_ok)
              ELSE search_limit_by_flags(hdr, args, k + 1, seq1, seq2,
                                         range_ok)
         ELSE search_limit_by_flags(hdr, args, k + 1, seq1, seq2, range_ok)

\* search_get_seqset.  hdr_ok and range_ok tell whether mail_index_get_header
\* and the uid lookup succeed.  ret is 0 or -1; assert_failed tells that
\* i_assert(ctx->seq1 <= ctx->seq2) stopped the process.  A syntax error is
\* recorded by search_msgset_fix, an index error by the two lookups.
search_get_seqset(hdr, args, hdr_ok, range_ok) ==
    LET none == [ret |-> -1, assert_failed |-> FALSE, args |-> args,
                 seq1 |-> 0, seq2 |-> 0, storage_error |-> "index error"]
        p == search_parse_msgset_args(hdr, args)
        seq1 == IF p.seq1 = 0 THEN 1 ELSE p.seq1
        seq2 == IF p.seq1 = 0 THEN hdr.messages_count ELSE p.seq2
        l == search_limit_by_flags(hdr, p.args, 1, seq1, seq2, range_ok)
    IN  IF ~hdr_ok THEN none
        ELSE IF p.ret < 0
        THEN [none EXCEPT !.args = p.args, !.seq1 = p.seq1, !.seq2 = p.seq2,
                          !.storage_error = "Invalid messageset"]
        ELSE IF ~(seq1 <= seq2)
        THEN [none EXCEPT !.assert_failed = TRUE, !.args = p.args,
                          !.seq1 = seq1, !.seq2 = seq2, !.storage_error = ""]
        ELSE IF l.ret < 0
        THEN [none EXCEPT !.args = l.args, !.seq1 = l.seq1, !.seq2 = seq2]
        ELSE [ret |-> 0, assert_failed |-> FALSE, args |-> l.args,
              seq1 |-> l.seq1, seq2 |-> seq2, storage_error |-> ""]

(***************************************************************************)
(* The predicate evaluator.  A message context m holds what the            *)
(* collaborators answer for the current message: seq, rec_null (the lookup *)
(* found no record), flags (rec->flags), size (get_size, -1 when           *)
(* unavailable), stream (get_stream gave a stream) and body (what          *)
(* message_body_search returns: -1, 0 or 1).                               *)
(***************************************************************************)
\* seqset_contains
seqset_contains(set, seq) ==
    \E k \in 1..Len(set) : seq >= set[k].seq1 /\ seq <= set[k].seq2

\* search_arg_match_index: >0 matched, 0 not matched, -1 unknown
\* (search_keyword returns FALSE on every path)
search_arg_match_index(type, flags) ==
    CASE type = "ALL" -> 1
      [] type = "ANSWERED" -> IF MAIL_ANSWERED \in flags THEN 1 ELSE 0
      [] type = "DELETED" -> IF MAIL_DELETED \in flags THEN 1 ELSE 0
      [] type = "DRAFT" -> IF MAIL_DRAFT \in flags THEN 1 ELSE 0
      [] type = "FLAGGED" -> IF MAIL_FLAGGED \in flags THEN 1 ELSE 0
      [] type = "SEEN" -> IF MAIL_SEEN \in flags THEN 1 ELSE 0
      [] type = "KEYWORD" -> 0
      [] OTHER -> -1

\* search_index_arg
search_index_arg(arg, m) ==
    IF arg.type = "SEQSET"
    THEN ARG_SET_RESULT(arg, IF seqset_contains(arg.seqset, m.seq)
                             THEN 1 ELSE 0)
    ELSE IF m.rec_null
    THEN ARG_SET_RESULT(arg, 0)
    ELSE LET r == search_arg_match_index(arg.type, m.flags)
         IN  IF r = -1 THEN arg
             ELSE IF r = 0 THEN ARG_SET_RESULT(arg, 0)
             ELSE ARG_SET_RESULT(arg, 1)

\* 3600*24
DaySecs == 86400

\* the comparison both functions end with
SentCompare(type, date, search_time) ==
    CASE type = "SENTBEFORE" -> IF date < search_time THEN 1 ELSE 0
      [] type = "SENTON" ->
            IF date >= search_time /\ date < search_time + DaySecs
            THEN 1 ELSE 0
      [] type = "SENTSINCE" -> IF date >= search_time THEN 1 ELSE 0

\* search_arg_match_cached, the sent dates: -1 when get_date has no date
SentMatchCached(type, value, mail) ==
    IF ~mail.have THEN -1
    ELSE IF ~value.ok THEN 0
    ELSE SentCompare(type, mail.date + mail.tz * 60, value.time)

\* search_sent without its sent_time += timezone_offset * 60
search_sent_NoOffset(type, value, mail) ==
    IF ~value.ok THEN 0
    ELSE IF ~mail.have THEN 0
    ELSE SentCompare(type, mail.date, value.time)

\* search_sent on the value of a Date header
search_sent(type, value, mail) ==
    IF ~value.ok THEN 0
    ELSE IF ~mail.have THEN 0
    ELSE SentCompare(type, mail.date + mail.tz * 60, value.time)

\* the day searched for: what imap_parse_date gives for the search key
SearchTime == 10 * DaySecs

SentTypes == {"SENTBEFORE", "SENTON", "SENTSINCE"}

\* get_date answering -1, a Date header message_date_parse does not take
NoDate == [date |-> 0, tz |-> 0, have |-> FALSE]

\* the search key of the SENT* nodes of a tree, and the header field a
\* HEADER or HEADER_ADDRESS node of a tree names
SentValue == [ok |-> TRUE, time |-> SearchTime]
TargetName == "From"

\* the size a SMALLER or LARGER node compares with: str_to_uoff_t(value)
SearchSize == 1

\* what get_size may answer: unavailable, a smaller and a larger size
Sizes == {-1, SearchSize - 1, SearchSize + 1}

\* search_arg_match_cached: the sent dates and the sizes; m.date is what
\* get_date answers
search_arg_match_cached(type, m) ==
    IF type \in SentTypes
    THEN SentMatchCached(type, SentValue, m.date)
    ELSE IF type \in {"SMALLER", "LARGER"}
    THEN IF m.size = -1 THEN -1
         ELSE IF type = "SMALLER"
         THEN (IF m.size < SearchSize THEN 1 ELSE 0)
         ELSE (IF m.size > SearchSize THEN 1 ELSE 0)
    ELSE -1

\* search_cached_arg
search_cached_arg(arg, m) ==
    LET r == search_arg_match_cached(arg.type, m)
    IN  IF r = -1 THEN arg
        ELSE IF r = 0 THEN ARG_SET_RESULT(arg, 0)
        ELSE ARG_SET_RESULT(arg, 1)

TXT_INVALID_SEARCH_KEY == "Invalid search key"

\* search_body: yields the node and ctx->error
search_body(arg, m, error) ==
    IF error # "" THEN [arg |-> arg, error |-> error]
    ELSE IF arg.type \in {"TEXT", "BODY"}
    THEN [arg |-> ARG_SET_RESULT(arg, IF m.body > 0 THEN 1 ELSE 0),
          error |-> IF m.body < 0 THEN TXT_INVALID_SEARCH_KEY ELSE error]
    ELSE [arg |-> arg, error |-> error]

\* search_header_arg, with search_header_context.  hctx stands for the
\* search_header_context: the header line hdr (its name, what
\* message_date_parse makes of it, whether message_header_search finds the
\* key in its value and in its address rendering), custom_header, and the
\* session's error; m.charset_ok is FALSE when message_header_search_init
\* gives NULL
search_header_arg(arg, m, hctx) ==
    LET hdr == hctx.hdr
        custom == [hctx EXCEPT !.custom_header = TRUE]
        ret == IF ~m.charset_ok THEN 0
               ELSE IF arg.type = "HEADER_ADDRESS"
               THEN (IF hdr.addr_hit THEN 1 ELSE 0)
               ELSE (IF hdr.raw_hit THEN 1 ELSE 0)
    IN  IF arg.type \in SentTypes
        THEN [arg |-> IF hdr.name = "Date"
                      THEN ARG_SET_RESULT(arg, search_sent(arg.type,
                                                SentValue, hdr.date))
                      ELSE arg,
              error |-> hctx]
        ELSE IF arg.type \in {"HEADER", "HEADER_ADDRESS"}
                /\ hdr.name # TargetName
        THEN [arg |-> arg, error |-> custom]
        ELSE IF arg.type \in {"HEADER", "HEADER_ADDRESS", "TEXT"}
        THEN [arg |-> IF ret = 1 \/ arg.type = "HEADER_ADDRESS"
                      THEN ARG_SET_RESULT(arg, ret) ELSE arg,
              error |-> IF m.charset_ok THEN custom
                        ELSE [custom EXCEPT !.error = TXT_INVALID_SEARCH_KEY]]
        ELSE [arg |-> arg, error |-> hctx]

\* the function without its SEARCH_SENT* cases
search_header_unmatch_HeadersOnly(arg) ==
    IF arg.type \in {"HEADER", "HEADER_ADDRESS"}
    THEN ARG_SET_RESULT(arg, 0)
    ELSE arg

\* search_header_unmatch
search_header_unmatch(arg) ==
    IF arg.type \in SentTypes
    THEN (IF arg.not THEN ARG_SET_RESULT(arg, 0) ELSE arg)
    ELSE IF arg.type \in {"HEADER", "HEADER_ADDRESS"}
    THEN ARG_SET_RESULT(arg, 0)
    ELSE arg

\* the callback a walk of the tree applies to a leaf; in the header tier
\* the context handed through the walk is the search_header_context
Callback(tier, arg, m, error) ==
    CASE tier = "index" -> [arg |-> search_index_arg(arg, m), error |-> error]
      [] tier = "cached" -> [arg |-> search_cached_arg(arg, m), error |-> error]
      [] tier = "body" -> search_body(arg, m, error)
      [] tier = "header" -> search_header_arg(arg, m, error)
      [] tier = "unmatch" ->
            [arg |-> search_header_unmatch(arg), error |-> error]

\* search_arg_foreach of mail-search.c: a SUB is 1 when every child is 1, 0
\* when a child is 0, else unset; an OR is the dual; the walk of the
\* children stops at the child that decides; NOT flips a set result
RECURSIVE search_arg_foreach(_, _, _, _)
RECURSIVE SubargsLoop(_, _, _, _, _, _, _)
SubargsLoop(type, subargs, k, res, tier, m, error) ==
    IF k > Len(subargs)
    THEN [subargs |-> subargs, result |-> res, error |-> error]
    ELSE LET r == search_arg_foreach(subargs[k], tier, m, error)
             subs == [subargs EXCEPT ![k] = r.arg]
         IN  IF r.arg.result = -1
             THEN SubargsLoop(type, subs, k + 1, -1, tier, m, r.error)
             ELSE IF type = "SUB" /\ r.arg.result = 0
             THEN [subargs |-> subs, result |-> 0, error |-> r.error]
             ELSE IF type = "OR" /\ r.arg.result = 1
             THEN [subargs |-> subs, result |-> 1, error |-> r.error]
             ELSE SubargsLoop(type, subs, k + 1, res, tier, m, r.error)

search_arg_foreach(arg, tier, m, error) ==
    IF arg.result # -1 THEN [arg |-> arg, error |-> error]
    ELSE IF arg.type \in {"SUB", "OR"}
    THEN LET r == SubargsLoop(arg.type, arg.subargs, 1,
                              IF arg.type = "SUB" THEN 1 ELSE 0,
                              tier, m, error)
         IN  [arg |-> ARG_SET_RESULT([arg EXCEPT !.subargs = r.subargs],
                                     r.result),
              error |-> r.error]
    ELSE Callback(tier, arg, m, error)

\* mail_search_args_foreach: the loop from node k on; ret is 1 when every
\* node is 1, 0 at the first node that is 0, else -1
RECURSIVE mail_search_args_foreach(_, _, _, _, _, _)
mail_search_args_foreach(args, k, res, tier, m, error) ==
    IF k > Len(args)
    THEN [args |-> args, ret |-> res, error |-> error]
    ELSE LET r == search_arg_foreach(args[k], tier, m, error)
             args1 == [args EXCEPT ![k] = r.arg]
         IN  IF r.arg.result = 0
             THEN [args |-> args1, ret |-> 0, error |-> r.error]
             ELSE mail_search_args_foreach(args1, k + 1,
                    IF r.arg.result < 0 THEN -1 ELSE res, tier, m, r.error)

\* mail_search_args_analyze: whether a node of one of the types is still
\* unset, looking below the combinators that are unset
RECURSIVE HasPending(_, _)
HasPending(args, types) ==
    \E k \in 1..Len(args) :
        /\ args[k].result = -1
        /\ IF args[k].type \in {"SUB", "OR"}
           THEN HasPending(args[k].subargs, types)
           ELSE args[k].type \in types

\* the node types for which mail_search_args_analyze asks for the
\* message's headers, and for its body
HeaderTypes == SentTypes \cup {"HEADER", "HEADER_ADDRESS", "TEXT"}
BodyTypes == {"BODY", "TEXT"}

\* search_header for one header line
search_header(args, m, hdr, hctx) ==
    IF hctx.custom_header \/ hdr.name = "Date"
    THEN mail_search_args_foreach(args, 1, 1, "header", m,
            [hctx EXCEPT !.hdr = hdr, !.custom_header = FALSE])
    ELSE [args |-> args, ret |-> -1, error |-> hctx]

\* message_parse_header: search_header for each header line of the
\* message from line k on, then for the end of the headers
RECURSIVE message_parse_header(_, _, _, _)
RECURSIVE message_parse_header_next(_, _, _)
message_parse_header(args, m, k, hctx) ==
    IF k > Len(m.hdrs)
    THEN [args |-> mail_search_args_foreach(args, 1, 1, "unmatch", m,
                                            hctx.error).args,
          error |-> hctx.error]
    ELSE message_parse_header_next(search_header(args, m, m.hdrs[k], hctx),
                                   m, k)

\* on to the next header line after search_header gave s
message_parse_header_next(s, m, k) ==
    message_parse_header(s.args, m, k + 1, s.error)

\* the body part of search_arg_match_text, after the headers gave h
search_text_body(h, m, have_body) ==
    IF have_body
    THEN mail_search_args_foreach(h.args, 1, 1, "body", m, h.error)
    ELSE [args |-> h.args, ret |-> -1, error |-> h.error]

\* search_arg_match_text once the stream is there
search_text_stream(args, m, error, have_headers, have_body) ==
    IF have_headers
    THEN search_text_body(
            message_parse_header(args, m, 1,
                [hdr |-> <<>>, custom_header |-> TRUE, error |-> error]),
            m, have_body)
    ELSE mail_search_args_foreach(args, 1, 1, "body", m, error)

\* search_arg_match_text returning TRUE after the walks gave r
search_text_done(r) == [ok |-> TRUE, args |-> r.args, error |-> r.error]

\* search_arg_match_text after mail_search_args_analyze
search_text_analyzed(args, m, error, have_headers, have_body) ==
    IF ~have_headers /\ ~have_body
    THEN [ok |-> TRUE, args |-> args, error |-> error]
    ELSE IF ~m.stream
    THEN [ok |-> FALSE, args |-> args, error |-> error]
    ELSE search_text_done(search_text_stream(args, m, error, have_headers,
                                             have_body))

\* search_arg_match_text: ok is its return value
search_arg_match_text(args, m, error) ==
    search_text_analyzed(args, m, error, HasPending(args, HeaderTypes),
                         HasPending(args, BodyTypes))

\* search_match_next after the text tier gave t
search_match_text_tier(t) ==
    IF ~t.ok
    THEN [ret |-> FALSE, args |-> t.args, error |-> t.error]
    ELSE [ret |-> \A k \in 1..Len(t.args) : t.args[k].result = 1,
          args |-> t.args, error |-> t.error]

\* search_match_next after the cached tier gave b
search_match_cached_tier(b, m, error) ==
    IF b.ret >= 0
    THEN [ret |-> b.ret > 0, args |-> b.args, error |-> error]
    ELSE search_match_text_tier(search_arg_match_text(b.args, m, error))

\* search_match_next after the index tier gave a
search_match_index_tier(a, m, error) ==
    IF a.ret >= 0
    THEN [ret |-> a.ret > 0, args |-> a.args, error |-> error]
    ELSE IF m.rec_null
    THEN [ret |-> FALSE, args |-> a.args, error |-> error]
    ELSE search_match_cached_tier(
            mail_search_args_foreach(a.args, 1, 1, "cached", m, error),
            m, error)

\* search_match_next: ret is TRUE when the message matches
search_match_next(args, m, error) ==
    search_match_index_tier(
        mail_search_args_foreach(mail_search_args_reset(args, FALSE),
                                 1, 1, "index", m, error),
        m, error)

\* the node types search_arg_match_cached asks an accessor of the mail for
CachedTypes == SentTypes \cup {"SMALLER", "LARGER"}

\* what search_match_next asks of the mail beyond the index record, after
\* the index tier gave a: "cached" for the accessors of the cached tier
\* (the walk reaches the first leaf of CachedTypes that is still unset),
\* "stream" for get_stream or get_headers
search_match_calls_after_index(a, b, m) ==
    IF a.ret >= 0 \/ m.rec_null THEN {}
    ELSE (IF HasPending(a.args, CachedTypes) THEN {"cached"} ELSE {})
            \cup (IF b.ret < 0 /\ HasPending(b.args,
                                              HeaderTypes \cup BodyTypes)
                  THEN {"stream"} ELSE {})

\* the function with the cached tier and the text tier run in any case
search_match_next_calls_AllTiers(args, m, error) ==
    LET a == mail_search_args_reset(args, FALSE)
    IN  (IF HasPending(a, CachedTypes) THEN {"cached"} ELSE {})
            \cup (IF HasPending(a, HeaderTypes \cup BodyTypes)
                  THEN {"stream"} ELSE {})

\* search_match_next: the accessors of the mail it calls
search_match_next_calls(args, m, error) ==
    search_match_calls_after_index(
        mail_search_args_foreach(mail_search_args_reset(args, FALSE),
                                 1, 1, "index", m, error),
        mail_search_args_foreach(
            mail_search_args_foreach(mail_search_args_reset(args, FALSE),
                                     1, 1, "index", m, error).args,
            1, 1, "cached", m, error),
        m)

(***************************************************************************)
(* The session's inputs: mailboxes and predicate trees                     *)
(***************************************************************************)
\* the mailboxes: a message is new, seen, or seen and deleted
Mailboxes ==
    SeqsUpTo({{}, {MAIL_SEEN}, {MAIL_SEEN, MAIL_DELETED}}, MaxMsgs)

CountOf(msgs, flag) == Cardinality({k \in 1..Len(msgs) : flag \in msgs[k]})

\* the uid of the first message without the flag (with it, when with holds),
\* the next uid to be given out when there is none
FirstUid(msgs, flag, with) ==
    LET S == {k \in 1..Len(msgs) : (flag \in msgs[k]) = with}
    IN  IF S = {} THEN UidOf(Len(msgs) + 1)
        ELSE UidOf(CHOOSE k \in S : \A t \in S : k <= t)

\* the headers the index may hold for a mailbox: the counters count the
\* flags, and the low-water marks are 0 (not kept) or the uids they stand for
Headers(msgs) ==
    {[messages_count |-> Len(msgs),
      seen_messages_count |-> CountOf(msgs, MAIL_SEEN),
      deleted_messages_count |-> CountOf(msgs, MAIL_DELETED),
      first_unseen_uid_lowwater |->
            IF kept THEN FirstUid(msgs, MAIL_SEEN, FALSE) ELSE 0,
      first_deleted_uid_lowwater |->
            IF kept THEN FirstUid(msgs, MAIL_DELETED, TRUE) ELSE 0] :
        kept \in BOOLEAN}

PlainLeaves ==
    {Leaf("ALL", FALSE), Leaf("SEEN", FALSE), Leaf("SEEN", TRUE),
     Leaf("DELETED", FALSE), Leaf("DELETED", TRUE), Leaf("LARGER", FALSE),
     Leaf("BODY", FALSE), Leaf("BODY", TRUE)}

SeqSets ==
    {<<r>> : r \in {Range(1, 1), Range(2, 2), Range(1, STAR),
                    Range(STAR, STAR), Range(2, 1), Range(0, 1)}}
        \cup {<<Range(2, 1), Range(1, STAR)>>}

SeqLeaves ==
    {SeqsetArg(set, FALSE) : set \in SeqSets}
        \cup {SeqsetArg(<<Range(1, 1)>>, TRUE)}

SmallLeaves ==
    {Leaf("ALL", FALSE), Leaf("SEEN", FALSE), Leaf("SEEN", TRUE),
     Leaf("DELETED", FALSE), SeqsetArg(<<Range(2, 2)>>, FALSE)}

SecondLeaves ==
    {Leaf("SEEN", FALSE), Leaf("DELETED", FALSE),
     SeqsetArg(<<Range(2, 2)>>, FALSE)}

\* trees that need the cached size or the message body, or hold an invalid
\* sequence set below a combinator
OtherTrees ==
    { <<Leaf("SEEN", FALSE), Leaf("BODY", FALSE)>>,
      <<Leaf("LARGER", TRUE), Leaf("BODY", FALSE)>>,
      <<SubArg("OR", <<Leaf("SEEN", FALSE), Leaf("BODY", FALSE)>>, FALSE)>>,
      <<SubArg("SUB", <<Leaf("LARGER", FALSE), Leaf("BODY", TRUE)>>, TRUE)>>,
      <<SubArg("SUB", <<SeqsetArg(<<Range(0, 1)>>, FALSE)>>, FALSE)>>,
      <<SubArg("OR", <<Leaf("SEEN", FALSE),
                       SeqsetArg(<<Range(2, 1)>>, FALSE)>>, FALSE)>> }

\* the trees: one leaf; two leaves; a SUB or an OR of two leaves, plain or
\* negated; OR(ALL, X) with X a SUB or an OR of its own; and OtherTrees
Trees ==
    {<<l>> : l \in PlainLeaves \cup SeqLeaves}
        \cup {<<a, b>> : a \in SmallLeaves, b \in SecondLeaves}
        \cup {<<SubArg(t, <<a, b>>, n)>> :
                t \in {"SUB", "OR"}, n \in BOOLEAN,
                a \in SmallLeaves, b \in SecondLeaves}
        \cup {<<SubArg("OR", <<Leaf("ALL", FALSE), SubArg(t, <<a>>, FALSE)>>,
                       FALSE)>> :
                t \in {"SUB", "OR"}, a \in SmallLeaves}
        \cup OtherTrees

RECURSIVE HasType(_, _)
HasType(args, type) ==
    \E k \in 1..Len(args) :
        args[k].type = type \/ HasType(args[k].subargs, type)

\* what the collaborators may answer for one message: lookup finds the
\* record ("rec"), finds none ("none": expunged) or fails; next_ok is
\* index_mail_next() >= 0.  An answer nobody asks for is left at its default.
Answers(args) ==
    LET Ans(l, n, z, s, b) ==
            [lookup |-> l, next_ok |-> n, size |-> z, stream |-> s,
             body |-> b]
        sizes == IF HasType(args, "LARGER") THEN Sizes ELSE {-1}
        bodies == IF HasType(args, "BODY")
                  THEN {<<FALSE, 0>>, <<TRUE, -1>>, <<TRUE, 0>>, <<TRUE, 1>>}
                  ELSE {<<TRUE, 0>>}
    IN  {Ans("fail", TRUE, -1, TRUE, 0), Ans("rec", FALSE, -1, TRUE, 0),
         Ans("none", FALSE, -1, TRUE, 0), Ans("none", TRUE, -1, TRUE, 0)}
            \cup {Ans("rec", TRUE, z, sb[1], sb[2]) :
                    z \in sizes, sb \in bodies}

MsgCtx(seq, o) ==
    [seq |-> seq, rec_null |-> o.lookup # "rec",
     flags |-> IF o.lookup = "rec" THEN q_msgs[seq] ELSE {},
     size |-> o.size, stream |-> o.stream, body |-> o.body,
     date |-> NoDate, hdrs |-> <<>>, charset_ok |-> TRUE]

SearchIdle ==
    /\ q_msgs = <<>> /\ q_hdr = <<>> /\ q_args = <<>> /\ q_seq1 = 0
    /\ q_seq2 = 0 /\ q_failed = FALSE /\ q_error = "" /\ q_storage_error = ""
    /\ q_mail_seq = 0 /\ q_rec = 0 /\ q_ret = -1 /\ q_deinit = 0
    /\ q_pc = "idle"

InitSearchVars ==
    /\ q_msgs \in Mailboxes
    /\ q_hdr \in Headers(q_msgs)
    /\ q_args \in Trees
    /\ q_seq1 = 0 /\ q_seq2 = 0 /\ q_failed = FALSE /\ q_error = ""
    /\ q_storage_error = ""
    /\ q_mail_seq = 0 /\ q_rec = 0 /\ q_ret = -1 /\ q_deinit = 0
    /\ q_pc = "new"

(***************************************************************************)
(* The session's operations                                                *)
(***************************************************************************)
\* index_storage_search_init; when the assertion of search_get_seqset fails
\* the process stops ("panic")
index_storage_search_init ==
    /\ sys = "search"
    /\ q_pc = "new"
    /\ \E hdr_ok \in BOOLEAN, range_ok \in BOOLEAN :
        LET r == search_get_seqset(q_hdr, mail_search_args_reset(q_args, TRUE),
                                   hdr_ok, range_ok)
        IN  /\ q_args' = r.args
            /\ q_storage_error' = r.storage_error
            /\ IF r.assert_failed
               THEN /\ q_pc' = "panic"
                    /\ q_seq1' = r.seq1
                    /\ q_seq2' = r.seq2
                    /\ UNCHANGED q_failed
               ELSE IF r.ret < 0
               THEN /\ q_pc' = "inited"
                    /\ q_failed' = TRUE
                    /\ q_seq1' = 1
                    /\ q_seq2' = 0
               ELSE /\ q_pc' = "inited"
                    /\ q_seq1' = r.seq1
                    /\ q_seq2' = r.seq2
                    /\ UNCHANGED q_failed
    /\ UNCHANGED <<sys, date_vars, neg_vars, upd_vars,
                   q_msgs, q_hdr, q_error, q_mail_seq, q_rec, q_ret,
                   q_deinit, codec_vars, send_vars>>

InSession == q_pc \in {"inited", "ready", "in_next"}

\* the loop with ctx->mail->seq = ctx->seq1 in place of ctx->seq1++
index_storage_search_next_NoAdvance ==
    /\ sys = "search"
    /\ InSession
    /\ q_seq1 <= q_seq2
    /\ \E o \in Answers(q_args) :
        IF o.lookup = "fail"
        THEN /\ q_failed' = TRUE
             /\ q_storage_error' = "index error"
             /\ q_ret' = 0
             /\ q_pc' = "ready"
             /\ UNCHANGED <<q_args, q_seq1, q_error, q_mail_seq, q_rec>>
        ELSE LET seq == q_seq1
                 r == search_match_next(q_args, MsgCtx(seq, o), q_error)
             IN  /\ q_rec' = IF o.lookup = "rec" THEN seq ELSE 0
                 /\ q_mail_seq' = seq
                 /\ q_seq1' = seq
                 /\ UNCHANGED <<q_failed, q_storage_error>>
                 /\ IF ~o.next_ok
                    THEN /\ q_ret' = 0
                         /\ q_pc' = "ready"
                         /\ UNCHANGED <<q_args, q_error>>
                    ELSE /\ q_args' = r.args
                         /\ q_error' = r.error
                         /\ IF r.error # ""
                            THEN q_ret' = 0 /\ q_pc' = "ready"
                            ELSE IF r.ret
                            THEN q_ret' = seq /\ q_pc' = "ready"
                            ELSE q_ret' = -1 /\ q_pc' = "in_next"
    /\ UNCHANGED <<sys, date_vars, neg_vars, upd_vars,
                   q_msgs, q_hdr, q_seq2, q_deinit, codec_vars,
                   send_vars>>

\* index_storage_search_next, one turn of its while loop: the call returns
\* (q_pc = "ready", q_ret the mail's sequence or 0 for NULL) or goes on to
\* the next sequence (q_pc = "in_next")
index_storage_search_next ==
    /\ sys = "search"
    /\ InSession
    /\ q_seq1 <= q_seq2
    /\ \E o \in Answers(q_args) :
        IF o.lookup = "fail"
        THEN /\ q_failed' = TRUE
             /\ q_storage_error' = "index error"
             /\ q_ret' = 0
             /\ q_pc' = "ready"
             /\ UNCHANGED <<q_args, q_seq1, q_error, q_mail_seq, q_rec>>
        ELSE LET seq == q_seq1
                 r == search_match_next(q_args, MsgCtx(seq, o), q_error)
             IN  /\ q_rec' = IF o.lookup = "rec" THEN seq ELSE 0
                 /\ q_mail_seq' = seq
                 /\ q_seq1' = seq + 1
                 /\ UNCHANGED <<q_failed, q_storage_error>>
                 /\ IF ~o.next_ok
                    THEN /\ q_ret' = 0
                         /\ q_pc' = "ready"
                         /\ UNCHANGED <<q_args, q_error>>
                    ELSE /\ q_args' = r.args
                         /\ q_error' = r.error
                         /\ IF r.error # ""
                            THEN q_ret' = 0 /\ q_pc' = "ready"
                            ELSE IF r.ret
                            THEN q_ret' = seq /\ q_pc' = "ready"
                            ELSE q_ret' = -1 /\ q_pc' = "in_next"
    /\ UNCHANGED <<sys, date_vars, neg_vars, upd_vars,
                   q_msgs, q_hdr, q_seq2, q_deinit, codec_vars,
                   send_vars>>

\* index_storage_search_next when the window is used up: "last record"
index_storage_search_next_end ==
    /\ sys = "search"
    /\ InSession
    /\ q_seq1 > q_seq2
    /\ q_ret' = 0
    /\ q_pc' = "ready"
    /\ UNCHANGED <<sys, date_vars, neg_vars, upd_vars,
                   q_msgs, q_hdr, q_args, q_seq1, q_seq2, q_failed,
                   q_error, q_storage_error, q_mail_seq, q_rec, q_deinit,
                   codec_vars, send_vars>>

\* index_storage_search_deinit: the context is freed, the mail and the
\* window with it; the session keeps no hold on the tree
index_storage_search_deinit ==
    /\ sys = "search"
    /\ q_pc \in {"inited", "ready"}
    /\ q_deinit' = IF q_failed \/ q_error # "" THEN -1 ELSE 0
    /\ q_storage_error' = IF q_error # "" THEN q_error ELSE q_storage_error
    /\ q_pc' = "closed"
    /\ q_args' = <<>>
    /\ q_seq1' = 0
    /\ q_seq2' = 0
    /\ q_mail_seq' = 0
    /\ q_rec' = 0
    /\ q_ret' = -1
    /\ UNCHANGED <<sys, date_vars, neg_vars, upd_vars,
                   q_msgs, q_hdr, q_failed, q_error, codec_vars,
                   send_vars>>

(***************************************************************************)
(* Sent-date matching: the SENT* cases of search_arg_match_cached and      *)
(* search_sent.  A message's Date is what get_date / message_date_parse    *)
(* give: the instant in UTC seconds and the offset in minutes; have tells  *)
(* whether there is one (get_date did not answer -1, the header parses).   *)
(***************************************************************************)
\* instants around the two ends of the day searched for
Instants ==
    {SearchTime - 3600, SearchTime - 1, SearchTime, SearchTime + 3600,
     SearchTime + DaySecs - 3600, SearchTime + DaySecs - 1,
     SearchTime + DaySecs}
TzOffsets == {-60, 0, 60}

Mails ==
    [date : Instants, tz : TzOffsets, have : {TRUE}]
        \cup {[date |-> SearchTime, tz |-> 0, have |-> FALSE]}

DateIdle ==
    /\ d_type = "" /\ d_value = <<>> /\ d_mails = <<>> /\ d_cached = <<>>
    /\ d_sent = <<>>

InitDateVars ==
    /\ d_type \in {"SENTBEFORE", "SENTON", "SENTSINCE"}
    /\ d_value \in {[ok |-> TRUE, time |-> SearchTime],
                    [ok |-> FALSE, time |-> 0]}
    /\ d_mails \in [1..2 -> Mails]
    /\ d_cached = <<>>
    /\ d_sent = <<>>

\* the cached tier's verdict on the two messages
MatchCachedDate ==
    /\ sys = "date"
    /\ d_cached = <<>>
    /\ d_cached' = [k \in 1..2 |-> SentMatchCached(d_type, d_value, d_mails[k])]
    /\ UNCHANGED <<sys, codec_vars, send_vars, search_vars, neg_vars, upd_vars,
                   d_type,
                   d_value,
                   d_mails, d_sent>>

\* the text tier's verdict on the two messages' Date headers
MatchSentHeader ==
    /\ sys = "date"
    /\ d_sent = <<>>
    /\ d_sent' = [k \in 1..2 |-> search_sent(d_type, d_value, d_mails[k])]
    /\ UNCHANGED <<sys, codec_vars, send_vars, search_vars, neg_vars, upd_vars,
                   d_type,
                   d_value,
                   d_mails, d_cached>>

(***************************************************************************)
(* A predicate and its negation on one message: the tree <<X>> and the     *)
(* tree <<NOT X>> each go through index_storage_search_init on the same    *)
(* mailbox, and through search_match_next on the same message with the     *)
(* same answers of the collaborators when the message is in the window.    *)
(***************************************************************************)
\* X: a leaf of each tier, and combinators over leaves of different tiers
Predicates ==
    {Leaf("ALL", FALSE), Leaf("SEEN", FALSE), Leaf("DELETED", FALSE),
     Leaf("LARGER", FALSE), Leaf("BODY", FALSE),
     SeqsetArg(<<Range(1, 1)>>, FALSE),
     SubArg("SUB", <<Leaf("SEEN", FALSE), Leaf("BODY", FALSE)>>, FALSE),
     SubArg("OR", <<Leaf("SEEN", FALSE), Leaf("LARGER", FALSE)>>, FALSE),
     SubArg("SUB", <<Leaf("LARGER", FALSE), Leaf("BODY", TRUE)>>, FALSE),
     SubArg("OR", <<Leaf("DELETED", TRUE), Leaf("BODY", FALSE)>>, FALSE),
     Leaf("SENTBEFORE", FALSE), Leaf("SENTON", FALSE),
     Leaf("SENTSINCE", FALSE), Leaf("HEADER_ADDRESS", FALSE),
     SubArg("OR", <<Leaf("SEEN", FALSE), Leaf("HEADER_ADDRESS", FALSE)>>,
            FALSE),
     SubArg("SUB", <<Leaf("LARGER", FALSE), Leaf("SENTON", FALSE)>>, FALSE)}

\* NOT X: the node with its not flag flipped
Negated(arg) == [arg EXCEPT !.not = ~arg.not]

\* the most header lines a message has
MaxLines == 2

\* a date on the day searched for
OnDay == [date |-> SearchTime + 3600, tz |-> 0, have |-> TRUE]

\* a header line: its name, what message_date_parse makes of its value,
\* whether message_header_search finds the key in the address rendering
\* of its value and in the value itself
HeaderLine(name, date, addr_hit, raw_hit) ==
    [name |-> name, date |-> date, addr_hit |-> addr_hit,
     raw_hit |-> raw_hit]

\* the header lines worth telling apart for a tree: Date lines that parse
\* or not for a SENT* node, lines of the field named with and without the
\* key for a HEADER_ADDRESS node, and a line of another field with the key
HeaderLines(args) ==
    LET sent == \E t \in SentTypes : HasType(args, t)
        addr == HasType(args, "HEADER_ADDRESS")
    IN  (IF sent THEN {HeaderLine("Date", OnDay, FALSE, FALSE),
                       HeaderLine("Date", NoDate, FALSE, FALSE)}
         ELSE {})
        \cup (IF addr THEN {HeaderLine(TargetName, NoDate, TRUE, TRUE),
                            HeaderLine(TargetName, NoDate, FALSE, TRUE)}
              ELSE {})
        \cup (IF sent \/ addr THEN {HeaderLine("To", NoDate, TRUE, TRUE)}
              ELSE {})

\* what the mail may answer about its headers: get_date, the header lines,
\* whether message_header_search_init takes the key, whether get_stream or
\* get_headers gives an input
HeaderAnswers(args) ==
    LET lines == HeaderLines(args)
        sent == \E t \in SentTypes : HasType(args, t)
    IN  [date : IF sent THEN {NoDate, OnDay} ELSE {NoDate},
         hdrs : SeqsUpTo(lines, MaxLines),
         charset_ok : IF HasType(args, "HEADER_ADDRESS") THEN BOOLEAN
                      ELSE {TRUE},
         input : IF lines = {} THEN {TRUE} ELSE BOOLEAN]

\* the answers under which next() reaches search_match_next
MatchAnswers(args) ==
    {[lookup |-> o.lookup, size |-> o.size, body |-> o.body,
      stream |-> o.stream /\ h.input, date |-> h.date, hdrs |-> h.hdrs,
      charset_ok |-> h.charset_ok] :
        o \in {a \in Answers(args) :
                    a.lookup \in {"rec", "none"} /\ a.next_ok},
        h \in HeaderAnswers(args)}

\* the message as search_match_next sees it
MailCtx(msgs, seq, o) ==
    [seq |-> seq, rec_null |-> o.lookup # "rec",
     flags |-> IF o.lookup = "rec" THEN msgs[seq] ELSE {},
     size |-> o.size, stream |-> o.stream, body |-> o.body,
     date |-> o.date, hdrs |-> o.hdrs, charset_ok |-> o.charset_ok]

\* what next() makes of the verdict r of search_match_next; calls is what
\* search_match_next asked of the mail
Verdict(r, calls) ==
    [looked |-> TRUE, ret |-> r.ret, result |-> r.args[1].result,
     error |-> r.error, calls |-> calls]

\* the message m after an init that gave p: not looked at when init failed
\* or left m out of the window
MatchOutcome(p, m) ==
    IF p.assert_failed \/ p.ret < 0 \/ m.seq < p.seq1 \/ m.seq > p.seq2
    THEN [looked |-> FALSE, ret |-> FALSE, result |-> -1, error |-> "",
          calls |-> {}]
    ELSE Verdict(search_match_next(p.args, m, ""),
                 search_match_next_calls(p.args, m, ""))

\* a search for the tree on the mailbox as far as message seq: init, then
\* search_match_next on seq when init left it in the window.  looked tells
\* whether the message was looked at, ret is the verdict, result the root
\* node's result after the cascade, error is ctx->error
SearchOutcome(args, msgs, hdr, seq, o) ==
    MatchOutcome(search_get_seqset(hdr, mail_search_args_reset(args, TRUE),
                                   TRUE, TRUE),
                 MailCtx(msgs, seq, o))

NegIdle ==
    /\ n_msgs = <<>> /\ n_hdr = <<>> /\ n_x = <<>> /\ n_seq = 0
    /\ n_ans = <<>> /\ n_pos = <<>> /\ n_neg = <<>>

InitNegVars ==
    /\ n_msgs \in Mailboxes \ {<<>>}
    /\ n_hdr \in Headers(n_msgs)
    /\ n_x \in Predicates
    /\ n_seq \in 1..Len(n_msgs)
    /\ n_ans \in MatchAnswers(<<n_x>>)
    /\ n_pos = <<>>
    /\ n_neg = <<>>

\* the search for X
SearchForX ==
    /\ sys = "neg"
    /\ n_pos = <<>>
    /\ n_pos' = SearchOutcome(<<n_x>>, n_msgs, n_hdr, n_seq, n_ans)
    /\ UNCHANGED <<sys, codec_vars, send_vars, search_vars, date_vars, upd_vars,
                   n_msgs,
                   n_hdr, n_x, n_seq, n_ans, n_neg>>

\* the search for NOT X
SearchForNotX ==
    /\ sys = "neg"
    /\ n_neg = <<>>
    /\ n_neg' = SearchOutcome(<<Negated(n_x)>>, n_msgs, n_hdr, n_seq, n_ans)
    /\ UNCHANGED <<sys, codec_vars, send_vars, search_vars, date_vars, upd_vars,
                   n_msgs,
                   n_hdr, n_x, n_seq, n_ans, n_pos>>

(***************************************************************************)
(* maildir_index_update_flags: one message, its record in the index and    *)
(* its file under cur/.  The collaborators answer: lookup_field finds the  *)
(* LOCATION or not, rename() succeeds or fails with an errno, update_end   *)
(* and mail_index_update_flags succeed or fail; a collaborator that fails  *)
(* leaves the index as it was.                                             *)
(***************************************************************************)
\* what may go wrong in one call: nothing (""), lookup_field finds no
\* LOCATION, rename() fails with an errno, update_end fails,
\* mail_index_update_flags fails
Failures == {"", "lookup", "ENOSPC", "EACCES", "update_end", "update_flags"}

\* rename(old_path, new_path) with the message's file named file: "" for
\* success, else the errno; there is nothing to rename when old_path is not
\* that file
rename(old_fname, file, fail) ==
    IF fail \in {"ENOSPC", "EACCES"} THEN fail
    ELSE IF old_fname # file THEN "ENOENT"
    ELSE ""

\* the two lines with index->nodiskspace = TRUE whatever the errno
nodiskspace_after_AnyErrno(nodiskspace, errno) == TRUE

\* if (errno == ENOSPC) index->nodiskspace = TRUE
nodiskspace_after(nodiskspace, errno) == nodiskspace \/ errno = "ENOSPC"

UpdState(l, f, r, n, ret, at) ==
    [loc |-> l, file |-> f, recflags |-> r, nodiskspace |-> n, ret |-> ret,
     at |-> at]

\* the function from the rename on, when the name changes; e is what
\* rename() gave
update_renamed(loc, new_fname, file, e, recflags, nodiskspace, flags, fail) ==
    IF e # ""
    THEN UpdState(loc, file, recflags, nodiskspace_after(nodiskspace, e),
                  "FALSE", <<"rename", e>>)
    ELSE IF fail = "update_end"
    THEN UpdState(loc, new_fname, recflags, nodiskspace, "FALSE",
                  <<"update_end">>)
    ELSE IF fail = "update_flags"
    THEN UpdState(new_fname, new_fname, recflags, nodiskspace, "FALSE",
                  <<"update_flags">>)
    ELSE UpdState(new_fname, new_fname, flags, nodiskspace, "TRUE",
                  <<"end">>)

\* the function from the strcmp on; new_fname is what
\* maildir_filename_set_flags gave
update_named(loc, new_fname, file, recflags, nodiskspace, flags, fail) ==
    IF new_fname # loc
    THEN update_renamed(loc, new_fname, file, rename(loc, file, fail),
                        recflags, nodiskspace, flags, fail)
    ELSE IF fail = "update_flags"
    THEN UpdState(loc, file, recflags, nodiskspace, "FALSE",
                  <<"update_flags">>)
    ELSE UpdState(loc, file, flags, nodiskspace, "TRUE", <<"end">>)

\* maildir_index_update_flags: the state it leaves
update_flags(loc, file, recflags, nodiskspace, flags, fail) ==
    IF fail = "lookup"
    THEN UpdState(loc, file, recflags, nodiskspace, "FALSE", <<"lookup">>)
    ELSE update_named(loc, maildir_filename_set_flags(loc, flags), file,
                      recflags, nodiskspace, flags, fail)

\* the names a message's file has before the first update
UpdNames ==
    { <<"1">>, <<"1", ":", "2", ",", "S">>,
      <<"1", ":", "2", ",", "X", "a", ",", "W">> }

\* the flag sets asked for
UpdFlagSets ==
    { {}, {MAIL_SEEN}, {MAIL_SEEN, MAIL_DELETED}, {MAIL_DRAFT},
      {CustomFlag("a")} }

UpdIdle ==
    /\ u_loc = NoName /\ u_file = NoName /\ u_recflags = {}
    /\ u_nodiskspace = FALSE /\ u_ret = "none" /\ u_at = <<>>

\* the index and the maildir agree on the message
InitUpdVars ==
    /\ u_loc \in UpdNames
    /\ u_file = u_loc
    /\ u_recflags = maildir_filename_get_flags(u_loc, {})
    /\ u_nodiskspace \in BOOLEAN
    /\ u_ret = "none"
    /\ u_at = <<>>

SetUpdState(r) ==
    /\ u_loc' = r.loc
    /\ u_file' = r.file
    /\ u_recflags' = r.recflags
    /\ u_nodiskspace' = r.nodiskspace
    /\ u_ret' = r.ret
    /\ u_at' = r.at

maildir_index_update_flags ==
    /\ sys = "upd"
    /\ \E flags \in UpdFlagSets, fail \in Failures :
        SetUpdState(update_flags(u_loc, u_file, u_recflags, u_nodiskspace,
                                 flags, fail))
    /\ UNCHANGED <<sys, codec_vars, send_vars, search_vars, date_vars,
                   neg_vars>>

(***************************************************************************)
(* Specifications                                                          *)
(***************************************************************************)
InitCodec ==
    sys = "codec" /\ InitCodecVars /\ SendIdle /\ SearchIdle /\ DateIdle
        /\ NegIdle /\ UpdIdle
InitSend ==
    sys = "send" /\ InitSendVars /\ CodecIdle /\ SearchIdle /\ DateIdle
        /\ NegIdle /\ UpdIdle
InitSearch ==
    sys = "search" /\ InitSearchVars /\ CodecIdle /\ SendIdle /\ DateIdle
        /\ NegIdle /\ UpdIdle
InitDate ==
    sys = "date" /\ InitDateVars /\ CodecIdle /\ SendIdle /\ SearchIdle
        /\ NegIdle /\ UpdIdle
InitNeg ==
    sys = "neg" /\ InitNegVars /\ CodecIdle /\ SendIdle /\ SearchIdle
        /\ DateIdle /\ UpdIdle
InitUpd ==
    sys = "upd" /\ InitUpdVars /\ CodecIdle /\ SendIdle /\ SearchIdle
        /\ DateIdle /\ NegIdle

NextCodec == SetFlags \/ GetFlags \/ SetFlagsAgain
NextSend == message_send_begin \/ message_send_loop \/ message_send_return
NextSearch ==
    \/ index_storage_search_init
    \/ index_storage_search_next
    \/ index_storage_search_next_end
    \/ index_storage_search_deinit
NextDate == MatchCachedDate \/ MatchSentHeader
NextNeg == SearchForX \/ SearchForNotX
NextUpd == maildir_index_update_flags

SpecCodec == InitCodec /\ [][NextCodec]_vars
SpecSend == InitSend /\ [][NextSend]_vars
SpecSearch == InitSearch /\ [][NextSearch]_vars
SpecDate == InitDate /\ [][NextDate]_vars
SpecNeg == InitNeg /\ [][NextNeg]_vars
SpecUpd == InitUpd /\ [][NextUpd]_vars

Init ==
    InitCodec \/ InitSend \/ InitSearch \/ InitDate \/ InitNeg \/ InitUpd
Next ==
    NextCodec \/ NextSend \/ NextSearch \/ NextDate \/ NextNeg \/ NextUpd
Spec == Init /\ [][Next]_vars

(***************************************************************************)
(* The file-name codec: properties                                         *)
(***************************************************************************)
\* the name's only ':' begins a ":2," and no '/' comes after it
WellFormedSuffix(n) ==
    LET c == StrChr(n, ":")
    IN  /\ c # 0
        /\ StrRChr(n, ":") = c
        /\ CharAt(n, c + 1) = "2"
        /\ CharAt(n, c + 2) = ","
        /\ StrRChr(n, "/") < c

\* C2, as stated: for every name that ends in a ":2,<flagchars>" suffix, with
\* any base and any old flag characters, with or without a ','-section, and
\* every set F of recognized flags, decoding the encoding of (n, F) with
\* default 0 gives F
C2_RoundTripAnyBase ==
    (c_dec # NoFlags /\ c_fname \in SuffixedNames) => c_dec = c_flags

\* C2, amended: when the only ':' of the name is the one that begins its
\* ":2," suffix and no '/' follows it, decoding the encoding of (n, F) with
\* default 0 gives F, for every set F of recognized flags
C2_RoundTrip ==
    (c_dec # NoFlags /\ WellFormedSuffix(c_fname)) => c_dec = c_flags

\* a name with known and unknown old flag characters and a ','-section has
\* been encoded with all the flags of the universe and decoded again
C2_Witness ==
    /\ c_fname = <<"1", ",", "U", ":", "2", ",", "S", "X", ",", "W">>
    /\ WellFormedSuffix(c_fname)
    /\ c_flags = FlagUniverse
    /\ c_dec = c_flags

ExampleBase == SubSeq(ExampleName, 1, 16)

\* C3, as stated: encoding "1234.host,U=7:2,RSabc" with {DELETED, DRAFT}
\* yields "1234.host,U=7:2,DSTabc"
C3_ExampleKeepsOldFlags ==
    (c_fname = ExampleName /\ c_flags = {MAIL_DELETED, MAIL_DRAFT}
        /\ c_new # NoName)
    => c_new = ExampleBase \o <<"D", "S", "T", "a", "b", "c">>

\* C3, amended: encoding "1234.host,U=7:2,RSabc" with {DELETED, DRAFT}
\* yields "1234.host,U=7:2,DT": R, S, a, b and c are recognized flag
\* characters that the new flag set does not hold, so they are dropped
C3_Example ==
    (c_fname = ExampleName /\ c_flags = {MAIL_DELETED, MAIL_DRAFT}
        /\ c_new # NoName)
    => c_new = ExampleBase \o <<"D", "T">>

\* the example name has been encoded with {DELETED, DRAFT}
C3_Witness ==
    /\ c_fname = ExampleName
    /\ c_flags = {MAIL_DELETED, MAIL_DRAFT}
    /\ Len(c_new) = Len(ExampleBase) + 2

\* C15: for every name n and flag set F, encoding the encoded name with F
\* again changes nothing: set_flags(set_flags(n, F), F) = set_flags(n, F),
\* also for names without a ':' suffix, with a suffix that is not ":2,",
\* with unknown flag characters and with a ','-section
C15_Idempotent ==
    c_again # NoName => c_again = c_new

\* a name with unsorted unknown flag characters and a ','-section has been
\* encoded twice with all the flags, and so has a name whose suffix is ":1,S"
C15_Witness ==
    /\ c_again # NoName
    /\ c_again = c_new
    /\ c_flags = FlagUniverse
    /\ c_fname \in { <<"1", ":", "2", ",", "~", "A", ",", "W">>,
                     <<"1", ":", "1", ",", "S">> }

\* the characters the codec knows as flags
RecognizedChars ==
    {"D", "F", "R", "S", "T"} \cup {Chr(n) : n \in Code("a")..Code("z")}

\* the flag string of a name as the encoder finds it: what follows the ":2,"
\* at the last ':' (one that no '/' follows) up to the first ',' or the
\* end; HasSuffix tells whether there is such a ":2,"
SuffixAt(n) ==
    LET c == StrRChr(n, ":")
    IN  IF c # 0 /\ StrRChr(n, "/") < c /\ CharAt(n, c + 1) = "2"
                 /\ CharAt(n, c + 2) = ","
        THEN c ELSE 0

HasSuffix(n) == SuffixAt(n) # 0

AfterSuffix(n) == Tail_(n, SuffixAt(n) + 3)

FlagString(n) ==
    LET rest == AfterSuffix(n)
        e == StrChr(rest, ",")
    IN  IF e = 0 THEN rest ELSE SubSeq(rest, 1, e - 1)

\* what follows the flag string: empty, or the ','-section with its ','
SecondarySection(n) ==
    LET rest == AfterSuffix(n)
        e == StrChr(rest, ",")
    IN  IF e = 0 THEN <<>> ELSE Tail_(rest, e)

IsRecognized(c) == c \in RecognizedChars
IsUnknown(c) == c \notin RecognizedChars

Ascending(str, strict) ==
    \A i \in 1..(Len(str) - 1) :
        IF strict THEN Code(str[i]) < Code(str[i + 1])
        ELSE Code(str[i]) <= Code(str[i + 1])

\* C16: in the flag string maildir_filename_set_flags writes (after its
\* ":2," up to the first ',' or the end) the recognized flag characters
\* D, F, R, S, T, a..z are in strictly ascending ASCII order, so none is
\* there twice, whatever the order of the old flag string
C16_RecognizedAscending ==
    c_new # NoName =>
        /\ HasSuffix(c_new)
        /\ Ascending(SelectSeq(FlagString(c_new), IsRecognized), TRUE)

\* all the flags have been written around an unknown character of an old
\* flag string that was not sorted
C16_Witness ==
    /\ c_fname = <<"1", ":", "2", ",", "X", "S">>
    /\ c_flags = FlagUniverse
    /\ c_new # NoName
    /\ FlagString(c_new) = <<"D", "F", "R", "S", "T", "X", "a", "z">>

C18_UnknownCharsKept ==
    (c_new # NoName /\ HasSuffix(c_fname)) =>
        /\ SelectSeq(FlagString(c_new), IsUnknown)
                = SelectSeq(FlagString(c_fname), IsUnknown)
        /\ Ascending(FlagString(c_fname), FALSE)
                => Ascending(FlagString(c_new), FALSE)

\* flags have been written before, between and after the two unknown
\* characters of a sorted old flag string
C18_Witness ==
    /\ c_fname = <<"1", ":", "2", ",", "A", "X", ",", "W">>
    /\ c_flags = FlagUniverse
    /\ c_new # NoName
    /\ FlagString(c_new) = <<"A", "D", "F", "R", "S", "T", "X", "a", "z">>

(***************************************************************************)
(* message_send: properties                                                *)
(***************************************************************************)
\* the message in its virtual form: every bare LF as CR LF
RECURSIVE VirtualForm(_, _)
VirtualForm(input, i) ==
    IF i > Len(input) THEN <<>>
    ELSE (IF BareLF(input, i) THEN <<CR, LF>> ELSE <<input[i]>>)
            \o VirtualForm(input, i + 1)

\* C4: when message_send ends without an output error it has written
\* min(max_virtual_size, virtual_size - virtual_skip) bytes, and none when
\* virtual_skip >= virtual_size, whatever the input, the chunks read, the
\* skip and the budget
C4_BytesWritten ==
    (s_pc = "done" /\ ~s_oerr) =>
        Len(s_out) = IF s_skip >= VirtualSize(s_input) THEN 0
                     ELSE Min(s_max, VirtualSize(s_input) - s_skip)

\* the slow path has skipped some bytes, added a CR and stopped at the
\* budget before the end of the message
C4_Witness ==
    /\ s_pc = "done" /\ ~s_oerr
    /\ PhysicalSize(s_input) # VirtualSize(s_input)
    /\ s_skip > 0
    /\ s_max > 0 /\ s_max < VirtualSize(s_input) - s_skip
    /\ Len(s_out) = s_max
    /\ \E i \in 2..Len(s_out) : s_out[i] = LF /\ s_out[i - 1] = CR

\* C5: on success message_send returns the number of bytes it wrote to the
\* sink, on the fast path and on the slow path
C5_ReturnsBytesWritten ==
    (s_pc = "done" /\ ~s_oerr) => s_ret = Len(s_out)

\* C6, as stated: what message_send writes holds no '\n' that is not
\* preceded by '\r' in the output
C6_NoBareLF ==
    \A i \in 1..Len(s_out) : s_out[i] = LF => (i > 1 /\ s_out[i - 1] = CR)

\* C6, amended: in what message_send writes every '\n' after the first byte
\* is preceded by '\r', and the output begins with '\n' only when
\* virtual_skip ends between the '\r' and the '\n' of a line end of the
\* message's virtual form
C6_NoBareLFInside ==
    /\ \A i \in 2..Len(s_out) : s_out[i] = LF => s_out[i - 1] = CR
    /\ (s_out # <<>> /\ s_out[1] = LF) =>
            /\ s_skip > 0
            /\ VirtualForm(s_input, 1)[s_skip] = CR
            /\ VirtualForm(s_input, 1)[s_skip + 1] = LF

\* the slow path has written the whole of "a\n", a CR before the LF
C6_Witness ==
    /\ s_pc = "done"
    /\ s_input = <<"a", LF>>
    /\ s_out = <<"a", CR, LF>>

(***************************************************************************)
(* The search session: properties                                          *)
(***************************************************************************)
\* what a node says of the message at seq, read off the tree and the
\* mailbox: a flag node asks for the flag, a sequence set for seq, SUB is
\* "and", OR is "or", NOT flips
RECURSIVE NodeHolds(_, _, _)
NodeHolds(arg, msgs, seq) ==
    LET v == CASE arg.type = "ALL" -> TRUE
               [] arg.type = "SEEN" -> MAIL_SEEN \in msgs[seq]
               [] arg.type = "DELETED" -> MAIL_DELETED \in msgs[seq]
               [] arg.type = "SEQSET" -> seqset_contains(arg.seqset, seq)
               [] arg.type = "SUB" ->
                    \A k \in 1..Len(arg.subargs) :
                        NodeHolds(arg.subargs[k], msgs, seq)
               [] arg.type = "OR" ->
                    \E k \in 1..Len(arg.subargs) :
                        NodeHolds(arg.subargs[k], msgs, seq)
               [] OTHER -> FALSE
    IN  v # arg.not

\* the message at seq satisfies the tree: every root node holds of it
Satisfies(args, msgs, seq) ==
    \A k \in 1..Len(args) : NodeHolds(args[k], msgs, seq)

\* the tree asks for nothing but flags and sequence numbers
FlagsAndSeqsOnly(args) ==
    ~HasType(args, "LARGER") /\ ~HasType(args, "BODY")

\* C1: for every tree that init accepts and every mailbox, every sequence
\* number whose message satisfies the tree lies inside the window
\* [seq1, seq2] that search_get_seqset computed
C1_WindowSound ==
    (q_pc = "inited" /\ ~q_failed /\ FlagsAndSeqsOnly(q_args)) =>
        \A seq \in 1..Len(q_msgs) :
            Satisfies(q_args, q_msgs, seq) =>
                (q_seq1 <= seq /\ seq <= q_seq2)

\* C7: when the lookup finds no record for a sequence of the window (the
\* message was expunged), next() does not return that message, whatever
\* the tree
C7_ExpungedNotReturned ==
    ~(q_pc = "ready" /\ q_ret > 0 /\ q_ret = q_mail_seq /\ q_rec = 0)

\* C8: when seen_messages_count = messages_count and the root of the tree
\* is NOT SEEN, the window computed at init is empty (seq1 > seq2)
C8_AllSeenWindowEmpty ==
    (/\ q_pc = "inited" /\ ~q_failed
     /\ q_hdr.seen_messages_count = q_hdr.messages_count
     /\ Len(q_args) = 1 /\ q_args[1].type = "SEEN" /\ q_args[1].not)
    => q_seq1 > q_seq2

\* C9: a tree of the form OR(ALL, X) makes the planner produce the window
\* [1, messages_count], whatever X is
C9_OrAllWholeMailbox ==
    (/\ q_pc = "inited" /\ ~q_failed
     /\ Len(q_args) = 1 /\ q_args[1].type = "OR" /\ ~q_args[1].not
     /\ Len(q_args[1].subargs) = 2
     /\ q_args[1].subargs[1].type = "ALL" /\ ~q_args[1].subargs[1].not)
    => (q_seq1 = 1 /\ q_seq2 = q_hdr.messages_count)

\* a range of a sequence set of the tree has its bounds inverted
RECURSIVE HasInvertedRange(_)
HasInvertedRange(args) ==
    \E k \in 1..Len(args) :
        \/ \E j \in 1..Len(args[k].seqset) :
                /\ args[k].seqset[j].seq1 # STAR
                /\ args[k].seqset[j].seq2 # STAR
                /\ args[k].seqset[j].seq1 > args[k].seqset[j].seq2
        \/ HasInvertedRange(args[k].subargs)

\* C10: a sequence set range with inverted bounds (lo > hi) is rejected at
\* init with an error on the storage and the session fails
C10_InvertedRangeRejected ==
    (q_pc \in {"inited", "panic"} /\ HasInvertedRange(q_args)) =>
        (q_pc = "inited" /\ q_failed /\ q_storage_error # "")

\* a bound of a sequence set of the tree is 0 or above messages_count, "*"
\* standing for messages_count
RECURSIVE HasInvalidBound(_, _)
HasInvalidBound(args, count) ==
    LET Bad(b) == LET v == IF b = STAR THEN count ELSE b
                  IN  v = 0 \/ v > count
    IN  \E k \in 1..Len(args) :
            \/ \E j \in 1..Len(args[k].seqset) :
                    Bad(args[k].seqset[j].seq1) \/ Bad(args[k].seqset[j].seq2)
            \/ HasInvalidBound(args[k].subargs, count)

\* C11: when a sequence set of the tree holds a bound that is 0 or above
\* messages_count, init records an error on the storage (the syntax error
\* "Invalid messageset", or the index error when the header could not be
\* read), marks the session failed and leaves an empty window, no next()
\* returns a message, and deinit returns -1
C11_InvalidSeqsetFailsSession ==
    [][/\ (q_pc' \in {"inited", "ready", "in_next", "panic"}
            /\ HasInvalidBound(q_args', q_hdr'.messages_count))
          => /\ q_pc' # "panic"
             /\ q_failed'
             /\ q_seq1' > q_seq2'
             /\ q_ret' <= 0
             /\ q_storage_error' \in {"Invalid messageset", "index error"}
       /\ (HasInvalidBound(q_args, q_hdr.messages_count) /\ q_pc' = "closed")
          => q_deinit' = -1]_vars

\* a session on a tree with an over-range sequence set below an OR has
\* failed with the syntax error, and next() has returned none
C11_Witness ==
    /\ q_pc = "ready"
    /\ q_ret = 0
    /\ q_failed
    /\ q_storage_error = "Invalid messageset"
    /\ Len(q_args) = 1 /\ q_args[1].type = "OR"
    /\ HasInvalidBound(q_args, q_hdr.messages_count)

\* a turn of next() in which the text tier was needed and the stream could
\* not be had: the record is there, the tree asks for no size, the tiers
\* left no root node at 0, and yet the message did not match
StreamFailedTurn ==
    /\ q_mail_seq' = q_seq1
    /\ q_seq1' = q_seq1 + 1
    /\ q_pc' = "in_next"
    /\ q_rec' # 0
    /\ ~HasType(q_args', "LARGER")
    /\ \A k \in 1..Len(q_args') : q_args'[k].result # 0

\* C12: when the message stream cannot be had during the text tier, the
\* current message is no match and the session is failed (so that deinit
\* returns an error)
C12_StreamFailureFailsSession ==
    [][StreamFailedTurn => (q_ret' <= 0 /\ q_failed')]_vars

\* C13: failure is sticky: once ctx->failed or ctx->error is set, by init
\* or by a next(), no later next() returns a message and deinit returns -1
C13_FailureSticky ==
    [][(q_failed \/ q_error # "") =>
            /\ q_ret' <= 0
            /\ q_pc' = "closed" => q_deinit' = -1]_vars

\* a turn of next() that hands out a message
Returned == q_pc' = "ready" /\ q_ret' > 0

\* C19: over a session the window [seq1, seq2] computed at init only shrinks
\* from below, and a message next() returns has a sequence number inside
\* what is left of it and is then left out of it: the numbers returned are
\* strictly increasing, none comes twice, each is in the window of init
C19_ReturnedAscending ==
    [][(InSession /\ q_pc' # "closed") =>
            /\ q_seq2' = q_seq2
            /\ q_seq1' >= q_seq1
            /\ Returned => /\ q_seq1 <= q_ret'
                           /\ q_ret' < q_seq1'
                           /\ q_ret' <= q_seq2
                           /\ q_ret' = q_mail_seq']_vars

\* the second message of a mailbox where every message matches has been
\* returned, so the first was returned by an earlier call or skipped
C19_Witness ==
    /\ q_pc = "ready"
    /\ q_msgs = <<{}, {MAIL_SEEN}>>
    /\ Len(q_args) = 1
    /\ q_args[1].type = "ALL"
    /\ q_ret = 2
    /\ q_seq1 = 3
    /\ q_seq2 = 2

\* C24: whatever the mailbox header (an empty mailbox included) and whatever
\* the tree whose sequence sets search_msgset_fix accepts, the
\* i_assert(ctx->seq1 <= ctx->seq2) of search_get_seqset holds when it is
\* reached: init never stops the process
C24_AssertionHolds == q_pc # "panic"

(***************************************************************************)
(* maildir_index_update_flags: properties                                  *)
(***************************************************************************)
\* the call that ends this step returned where rename() failed
RenameFailed == u_ret' = "FALSE" /\ u_at' # <<>> /\ u_at'[1] = "rename"

\* C23: a call of maildir_index_update_flags whose rename() fails returns
\* failure, leaves the LOCATION field and the record's flags as they were,
\* and sets nodiskspace exactly when the errno is ENOSPC; no call clears
\* nodiskspace
C23_RenameFailure ==
    [][/\ u_nodiskspace => u_nodiskspace'
       /\ RenameFailed =>
            /\ u_loc' = u_loc
            /\ u_recflags' = u_recflags
            /\ u_file' = u_file
            /\ u_nodiskspace' = (u_nodiskspace \/ u_at'[2] = "ENOSPC")]_vars

\* a call that had to rename the file has failed in rename() for want of
\* disk space
C23_Witness ==
    /\ u_nodiskspace
    /\ u_ret = "FALSE"
    /\ u_at = <<"rename", "ENOSPC">>
    /\ u_loc = <<"1">>
    /\ u_recflags = {}

\* C25: after any calls of maildir_index_update_flags, failed ones
\* included, the LOCATION field names the message's file under cur/
C25_LocationNamesFile == u_loc = u_file

(***************************************************************************)
(* A predicate and its negation: properties                                *)
(***************************************************************************)
\* both searches looked at the message and neither raised ctx->error
BothLooked ==
    /\ n_pos # <<>> /\ n_neg # <<>>
    /\ n_pos.looked /\ n_neg.looked
    /\ n_pos.error = "" /\ n_neg.error = ""

\* the root node's result is set after the cascade
Definite(out) == out.result # -1

\* C20: when the search for X and the search for NOT X both gave a verdict
\* on the message with the root node's result set (leaves without a cached
\* value or left unset by the text tier may lie below it), the verdict for
\* NOT X is the negation of the verdict for X
C20_NegationWhenDefinite ==
    (BothLooked /\ Definite(n_pos) /\ Definite(n_neg)) =>
        (n_neg.ret = ~n_pos.ret)

\* a message whose headers could be read, with no cached sent date and no
\* Date header, searched for a SENT* node
NoDateMessage ==
    /\ n_pos # <<>> /\ n_neg # <<>>
    /\ n_pos.looked /\ n_neg.looked
    /\ n_x.type \in SentTypes
    /\ n_ans.stream
    /\ ~n_ans.date.have
    /\ \A k \in 1..Len(n_ans.hdrs) : n_ans.hdrs[k].name # "Date"

\* C21: a message with no Date header and no cached sent date does not
\* match SENTBEFORE, SENTON or SENTSINCE, and matches NOT SENTBEFORE, NOT
\* SENTON and NOT SENTSINCE
C21_NoDateHeader == NoDateMessage => (~n_pos.ret /\ n_neg.ret)

\* a message with header lines, none of them a Date, has been searched
\* for SENTSINCE and NOT SENTSINCE
C21_Witness ==
    /\ NoDateMessage
    /\ n_x.type = "SENTSINCE"
    /\ Len(n_ans.hdrs) = MaxLines
    /\ n_neg.ret
    /\ n_neg.calls = {"cached", "stream"}

\* a message whose headers could be read and whose search key the matcher
\* takes, searched for a HEADER_ADDRESS node
AddressMessage ==
    /\ n_pos # <<>>
    /\ n_pos.looked
    /\ n_x.type = "HEADER_ADDRESS"
    /\ n_ans.lookup = "rec"
    /\ n_ans.stream
    /\ n_ans.charset_ok

\* some line of the field named has the key in its address rendering
SomeLineHasKey ==
    \E k \in 1..Len(n_ans.hdrs) :
        n_ans.hdrs[k].name = TargetName /\ n_ans.hdrs[k].addr_hit

\* C26: a HEADER_ADDRESS node matches a message exactly when at least one
\* of the header lines of the field named has the key in its address
\* rendering, in whatever order the lines come
C26_AddressAnyLine == AddressMessage => (n_pos.ret = SomeLineHasKey)

\* the tree search_match_next is given for a search for x: what init left
PlannedArgs(x) ==
    search_get_seqset(n_hdr, mail_search_args_reset(<<x>>, TRUE), TRUE,
                      TRUE).args

\* what the index tier makes of the message for a search for x
IndexTier(x) ==
    mail_search_args_foreach(mail_search_args_reset(PlannedArgs(x), FALSE),
                             1, 1, "index",
                             MailCtx(n_msgs, n_seq, n_ans), "")

\* what the cached tier makes of what the index tier left
CachedTier(x) ==
    mail_search_args_foreach(IndexTier(x).args, 1, 1, "cached",
                             MailCtx(n_msgs, n_seq, n_ans), "")

\* the verdict v of a search for x asked nothing of the mail when the index
\* tier was definite or the record was gone, and opened no stream when the
\* cached tier was definite
TierOrderFor(x, v) ==
    v.looked =>
        /\ (IndexTier(x).ret >= 0 \/ n_ans.lookup # "rec") => v.calls = {}
        /\ (IndexTier(x).ret < 0 /\ n_ans.lookup = "rec"
                /\ CachedTier(x).ret >= 0) => "stream" \notin v.calls

DateVerdictsIn == d_cached # <<>> /\ d_sent # <<>>

\* C14, as stated: two messages whose Date headers denote the same UTC
\* instant with different offsets get the same verdict from a SENTBEFORE,
\* SENTON or SENTSINCE node, in the cached tier and in the text tier
C14_SameInstantSameVerdict ==
    (/\ DateVerdictsIn
     /\ d_mails[1].have /\ d_mails[2].have
     /\ d_mails[1].date = d_mails[2].date)
    => (d_cached[1] = d_cached[2] /\ d_sent[1] = d_sent[2])

\* the time of day the Date header shows: the instant moved by the offset
LocalTime(mail) == mail.date + mail.tz * 60

\* C14, amended: two messages whose Date headers show the same date and
\* time of day, whatever their offsets (so that their UTC instants differ
\* by the difference of the offsets), get the same verdict from a
\* SENTBEFORE, SENTON or SENTSINCE node, in the cached tier and in the text
\* tier
C14_SameLocalTimeSameVerdict ==
    (/\ DateVerdictsIn
     /\ d_mails[1].have /\ d_mails[2].have
     /\ LocalTime(d_mails[1]) = LocalTime(d_mails[2]))
    => (d_cached[1] = d_cached[2] /\ d_sent[1] = d_sent[2])

\* two messages an hour apart with offsets an hour apart, one of them
\* before the day searched in UTC, have both matched SENTON
C14_Witness ==
    /\ DateVerdictsIn
    /\ d_type = "SENTON"
    /\ d_mails[1] = [date |-> SearchTime - 3600, tz |-> 60, have |-> TRUE]
    /\ d_mails[2] = [date |-> SearchTime, tz |-> 0, have |-> TRUE]
    /\ d_cached = <<1, 1>>
    /\ d_sent = <<1, 1>>

=============================================================================
